---------------------------- MODULE Spec2Model ----------------------------
(***************************************************************************)
(* A model of the block pipeline of exrs (src/src/image/mod.rs) and of the *)
(* PIZ huffman kernel (src/src/compression/piz/huffman.rs).                *)
(*                                                                         *)
(* The module holds one specification per subsystem:                       *)
(*   SpecWrite  write_all_lines_to_buffered / for_compressed_blocks_in_image*)
(*   SpecRead   for_decompressed_lines_in_chunks                           *)
(*   SpecLines  BlockIndex::line_indices (the LineIter state machine)      *)
(*   SpecChunk  compress_to_chunk / decompress_chunk                       *)
(*   SpecHuf    huffman::decompress / huffman::compress                    *)
(*   SpecCanon  huffman::canonical_table                                   *)
(* Each specification keeps the variables of the other subsystems at the   *)
(* value Idle.                                                             *)
(*                                                                         *)
(* Indices: layers, chunk indices and byte positions are 0-based as in the *)
(* source; TLA+ sequences are 1-based, so element k of a Vec is seq[k+1].  *)
(***************************************************************************)
EXTENDS Integers, Sequences, FiniteSets, TLC

(***************************************************************************)
(* Bounds of the model.                                                    *)
(***************************************************************************)
\* chunks (blocks) per header
MaxChunks == 2
\* threads of the rayon pool
NumWorkers == 2
\* bytes of compressed pixels in a chunk
MaxChunkBytes == 2

(***************************************************************************)
(* Program constants.                                                      *)
(***************************************************************************)
\* std::mem::size_of::<u64>(), the size of one offset table entry
U64Bytes == 8

Idle == <<>>
\* Option::None for ids, which are tuples
None == <<>>

Max(a, b) == IF a >= b THEN a ELSE b
Min(a, b) == IF a <= b THEN a ELSE b

RECURSIVE SumSeq(_)
SumSeq(s) == IF s = <<>> THEN 0 ELSE Head(s) + SumSeq(Tail(s))

RECURSIVE Flatten(_)
Flatten(ss) == IF ss = <<>> THEN <<>> ELSE Head(ss) \o Flatten(Tail(ss))

Reverse(s) == [k \in 1..Len(s) |-> s[Len(s) + 1 - k]]

Pow2(n) == 2 ^ n

(***************************************************************************)
(* Meta data.  A header is a record                                        *)
(*   line_order     "Increasing" | "Decreasing" | "Unspecified"            *)
(*   compression    "Uncompressed" | "ZIP16"                               *)
(*   chunk_count    the number of blocks of the layer                      *)
(*   data_position  <<x, y>> of the data window's origin                   *)
(*   data_size      <<width, height>> of the data window                   *)
(*   blocks         "ScanLines" | "Tiles"                                  *)
(*   tile_size      <<width, height>> of a tile (tiled headers)            *)
(*   channels       bytes per sample of each channel, in header order      *)
(* A Vec2 is a pair <<x, y>>.                                              *)
(***************************************************************************)
LineOrders == {"Increasing", "Decreasing", "Unspecified"}
Compressions == {"Uncompressed", "ZIP16"}

\* Compression::scan_lines_per_block
scan_lines_per_block(compression) ==
    IF compression = "ZIP16" THEN 16 ELSE 1

\* ChannelList::bytes_per_pixel
bytes_per_pixel(header) == SumSeq(header.channels)

\* Vec2::area
area(v) == v[1] * v[2]

\* Header::blocks_increasing_y_order of a scan line header, as chunk indices
blocks_increasing_y_order(header) ==
    [k \in 1..header.chunk_count |-> k - 1]

\* Header::enumerate_ordered_blocks: the blocks in the header's declared line
\* order, each with its chunk index, which is its increasing-y index.
enumerate_ordered_blocks(header) ==
    IF header.line_order = "Decreasing"
    THEN Reverse(blocks_increasing_y_order(header))
    ELSE blocks_increasing_y_order(header)

\* The TileCoordinates of scan line block number k of a header
scan_line_location(k) == [tile_index |-> <<0, k>>, level_index |-> <<0, 0>>]

\* compute_level_size with RoundingMode::Down
compute_level_size(full, level) == Max(1, full \div Pow2(level))

\* Header::get_absolute_block_indices: the pixel rectangle of a block,
\* relative to the data window.
get_absolute_block_indices(header, tile) ==
    IF header.blocks = "Tiles"
    THEN LET w == compute_level_size(header.data_size[1], tile.level_index[1])
             h == compute_level_size(header.data_size[2], tile.level_index[2])
             x == tile.tile_index[1] * header.tile_size[1]
             y == tile.tile_index[2] * header.tile_size[2]
         IN  IF x >= w \/ y >= h
             THEN [ok |-> FALSE, position |-> <<0, 0>>, size |-> <<0, 0>>]
             ELSE [ok |-> TRUE, position |-> <<x, y>>,
                   size |-> <<Min(header.tile_size[1], w - x),
                              Min(header.tile_size[2], h - y)>>]
    ELSE LET lines == scan_lines_per_block(header.compression)
             y == tile.tile_index[2] * lines
         IN  IF y >= header.data_size[2]
             THEN [ok |-> FALSE, position |-> <<0, 0>>, size |-> <<0, 0>>]
             ELSE [ok |-> TRUE, position |-> <<0, y>>,
                   size |-> <<header.data_size[1],
                              Min(lines, header.data_size[2] - y)>>]

(***************************************************************************)
(* Chunks.  A Chunk is [layer_index, block]; a block is a record           *)
(*   kind "ScanLine": y_coordinate, compressed_pixels                      *)
(*   kind "Tile":     tile_index, level_index, compressed_pixels           *)
(*   kind "Deep":     a deep data block                                    *)
(* (the fields a kind does not have are zero).                             *)
(***************************************************************************)
\* usize_to_i32(index.pixel_position.1) + header.own_attributes.data_position.1
scan_line_y_coordinate(index, header) ==
    index.pixel_position[2] + header.data_position[2]

\* a variant that takes the pixel position for the tile index
tile_index_of_pixels(index, header) == index.pixel_position

\* index.pixel_position / tiles.tile_size (Vec2 division, per component)
tile_index_of(index, header) ==
    << index.pixel_position[1] \div header.tile_size[1],
       index.pixel_position[2] \div header.tile_size[2] >>

\* The Chunk that compress_to_chunk builds around the compressed bytes
chunk_of(index, header, compressed_data) ==
    [layer_index |-> index.layer,
     block |->
        IF header.blocks = "ScanLines"
        THEN [kind |-> "ScanLine", compressed_pixels |-> compressed_data,
              y_coordinate |-> scan_line_y_coordinate(index, header),
              tile_index |-> <<0, 0>>, level_index |-> <<0, 0>>]
        ELSE [kind |-> "Tile", compressed_pixels |-> compressed_data,
              y_coordinate |-> 0,
              tile_index |-> tile_index_of(index, header),
              level_index |-> index.level]]

(***************************************************************************)
(* State.                                                                  *)
(***************************************************************************)
VARIABLES
    \* ---- write pipeline ----
    meta_data_given,        \* the meta data as the caller handed it in
    meta_data,              \* the headers of the image being written
    parallel_compression,   \* WriteOptions::parallel_compression
    wpc,                    \* where write_all_lines_to_buffered stands
    write,                  \* the Tracking writer: [bytes, byte_position]
    offset_table_start_byte,
    offset_tables,          \* Vec<Vec<u64>>, one table per header
    processed_chunk_count,
    write_calls,            \* history of the write_chunk invocations
    blocks,                 \* what uncompressed_image_blocks_ordered has yet to yield
    compressing,            \* the blocks that pool threads hold, one per thread
    channel,                \* the mpsc channel: (chunk_index, chunk) in send order
    expected_id_order,      \* what the iterator of line 594 has yet to yield
    next_id,                \* Option<(layer, chunk)>
    pending_blocks,         \* BTreeMap (layer, chunk_index) -> chunk
    fault,                  \* the one call of this run that returns an error, or None
    write_return,           \* what write_all_lines_to_buffered returned
    progress,               \* history of the on_write_progressed invocations
    get_line_log,           \* history of the get_line invocations
    executed                \* history: <<operation, thread>> pairs

write_vars ==
    << meta_data_given, meta_data, parallel_compression, wpc, write, offset_table_start_byte,
       offset_tables, processed_chunk_count, write_calls, blocks, compressing,
       channel, expected_id_order, next_id, pending_blocks, fault, write_return,
       progress, get_line_log, executed >>

VARIABLES
    \* ---- BlockIndex::line_indices ----
    li_block,               \* the BlockIndex whose lines are iterated
    li_channels,            \* bytes per sample of the header's channels
    li_iter,                \* the LineIter
    li_yielded,             \* the items next() has returned
    li_done                 \* next() has returned None

lines_vars == << li_block, li_channels, li_iter, li_yielded, li_done >>

VARIABLES
    \* ---- compress_to_chunk / decompress_chunk ----
    ck_headers,             \* the headers of the meta data
    ck_block,               \* the UncompressedBlock u
    ck_chunk,               \* the result of compress_to_chunk(u)
    ck_back,                \* the result of decompress_chunk on that chunk
    ck_pc

chunk_vars == << ck_headers, ck_block, ck_chunk, ck_back, ck_pc >>

VARIABLES
    \* ---- read pipeline ----
    rd_meta,                \* the headers of the file being read
    parallel_decompression, \* ReadOptions::parallel_decompression
    rd_file,                \* the chunks of the file in file order, each with its offset
    rd_filter,              \* the filter closure of a filtered read
    filter_calls,           \* history: the (header, block) pairs the filter was asked
    offsets,                \* the offsets the chunk iterator has yet to visit
    total_chunk_count,      \* the chunk count handed to the progress fraction
    rpc,                    \* where the read function stands
    decompressing,          \* the chunks that pool threads hold, one per thread
    rd_channel,             \* the mpsc channel: blocks in send order
    rd_block,               \* the block whose lines are being delivered
    rd_iter,                \* its LineIter
    rd_processed,           \* processed_chunk_count
    delivered,              \* history: the blocks the coordinator took up
    inserted_lines,         \* history: the lines handed to for_each
    rd_visited,             \* history: the offsets at which a chunk was read
    rd_calls,               \* history: the calls of on_progress and insert
    rd_executed,            \* history: which thread executed which operation
    rd_return               \* what the read function returned

read_vars ==
    << rd_meta, parallel_decompression, rd_file, rd_filter, filter_calls, offsets,
       total_chunk_count, rpc, decompressing, rd_channel, rd_block, rd_iter,
       rd_processed, delivered, inserted_lines, rd_visited, rd_calls, rd_executed,
       rd_return >>

VARIABLES
    \* ---- huffman::compress and huffman::decompress ----
    hf_uncompressed,        \* the symbols handed to compress
    hf_compressed,          \* the bytes handed to decompress
    hf_result,              \* the output buffer of the call
    hf_return,              \* what the call returned
    hf_pc

huf_vars == << hf_uncompressed, hf_compressed, hf_result, hf_return, hf_pc >>

VARIABLES
    \* ---- huffman::canonical_table ----
    cn_lengths,             \* the table of code lengths handed in
    cn_h_code,              \* h_code, the table in place
    cn_pc

canon_vars == << cn_lengths, cn_h_code, cn_pc >>

VARIABLES
    \* ---- huffman::read_bits and huffman::write_bits ----
    bt_read,                \* the bytes the stream has yet to supply
    bt_c,                   \* c, the i64 that buffers the bits, as its 64 bits
    bt_lc,                  \* lc, the number of buffered bits not yet taken
    bt_return,              \* what the last call returned, or the record
                            \* [fields, out, values] of a stream written
                            \* and read back
    bt_pc

bits_vars == << bt_read, bt_c, bt_lc, bt_return, bt_pc >>

VARIABLES
    \* ---- the buffer of a block in uncompressed_image_blocks_ordered ----
    \* [header, index, iter, byte_range, block_bytes, written, sizes, pc]:
    \* the header of the block's layer, block_indices, the iterator of
    \* line_indices, the byte range handed to get_line last,
    \* block_bytes.len(), written_block_byte_count, the lengths block_bytes
    \* has had
    bb

buffer_vars == << bb >>

VARIABLES
    \* ---- huffman::unpack_encoding_table ----
    \* [fields, packed, min_hcode_index, max_hcode_index, encoding_table,
    \*  return, pc]: the bit fields the packed table was written from, the
    \* bytes of the table, the range of symbols, encoding_table as the
    \* caller hands it in, what the call returned
    up

unpack_vars == << up >>

VARIABLES
    \* ---- huffman::build_encoding_table ----
    \* [given, frequencies, h_link, heap, nf, s_code, min_frequency_index,
    \*  max_frequency_index, m, mm, j, merges, canonical_calls, return, pc]:
    \* the frequencies as the caller hands them in, the locals of the
    \* function, the merges done so far, the number of calls of
    \* canonical_table, what the call returned
    be

build_vars == << be >>

vars ==
    << write_vars, lines_vars, chunk_vars, read_vars, huf_vars, canon_vars, bits_vars,
       buffer_vars, unpack_vars, build_vars >>

\* the variables each subsystem leaves alone
other_than_write ==
    << lines_vars, chunk_vars, read_vars, huf_vars, canon_vars, bits_vars,
       buffer_vars, unpack_vars, build_vars >>
other_than_lines ==
    << write_vars, chunk_vars, read_vars, huf_vars, canon_vars, bits_vars,
       buffer_vars, unpack_vars, build_vars >>
other_than_chunk ==
    << write_vars, lines_vars, read_vars, huf_vars, canon_vars, bits_vars,
       buffer_vars, unpack_vars, build_vars >>
other_than_read ==
    << write_vars, lines_vars, chunk_vars, huf_vars, canon_vars, bits_vars,
       buffer_vars, unpack_vars, build_vars >>
other_than_huf ==
    << write_vars, lines_vars, chunk_vars, read_vars, canon_vars, bits_vars,
       buffer_vars, unpack_vars, build_vars >>
other_than_bits ==
    << write_vars, lines_vars, chunk_vars, read_vars, huf_vars, canon_vars,
       buffer_vars, unpack_vars, build_vars >>
other_than_canon ==
    << write_vars, lines_vars, chunk_vars, read_vars, huf_vars, bits_vars,
       buffer_vars, unpack_vars, build_vars >>
other_than_buffer ==
    << write_vars, lines_vars, chunk_vars, read_vars, huf_vars, canon_vars, bits_vars,
       unpack_vars, build_vars >>
other_than_unpack ==
    << write_vars, lines_vars, chunk_vars, read_vars, huf_vars, canon_vars, bits_vars,
       buffer_vars, build_vars >>
other_than_build ==
    << write_vars, lines_vars, chunk_vars, read_vars, huf_vars, canon_vars, bits_vars,
       buffer_vars, unpack_vars >>

IdleBuffer == bb = Idle

IdleUnpack == up = Idle

IdleBuild == be = Idle

IdleBits ==
    /\ bt_read = Idle /\ bt_c = Idle /\ bt_lc = Idle /\ bt_return = Idle
    /\ bt_pc = Idle

IdleHuf ==
    /\ hf_uncompressed = Idle /\ hf_compressed = Idle /\ hf_result = Idle
    /\ hf_return = Idle /\ hf_pc = Idle

IdleCanon ==
    /\ cn_lengths = Idle /\ cn_h_code = Idle /\ cn_pc = Idle

IdleChunk ==
    /\ ck_headers = Idle /\ ck_block = Idle /\ ck_chunk = Idle
    /\ ck_back = Idle /\ ck_pc = Idle

IdleRead ==
    /\ rd_meta = Idle /\ parallel_decompression = Idle /\ rd_file = Idle
    /\ rd_filter = Idle /\ filter_calls = Idle /\ offsets = Idle
    /\ total_chunk_count = Idle
    /\ rpc = Idle /\ decompressing = Idle /\ rd_channel = Idle
    /\ rd_block = Idle /\ rd_iter = Idle /\ rd_processed = Idle
    /\ delivered = Idle /\ inserted_lines = Idle /\ rd_visited = Idle
    /\ rd_calls = Idle /\ rd_executed = Idle /\ rd_return = Idle

IdleWrite ==
    /\ meta_data_given = Idle
    /\ fault = Idle /\ write_return = Idle /\ progress = Idle
    /\ get_line_log = Idle /\ executed = Idle
    /\ meta_data = Idle /\ parallel_compression = Idle /\ wpc = Idle
    /\ write = Idle /\ offset_table_start_byte = Idle /\ offset_tables = Idle
    /\ processed_chunk_count = Idle /\ write_calls = Idle /\ blocks = Idle
    /\ compressing = Idle /\ channel = Idle /\ expected_id_order = Idle
    /\ next_id = Idle /\ pending_blocks = Idle

IdleLines ==
    /\ li_block = Idle /\ li_channels = Idle /\ li_iter = Idle
    /\ li_yielded = Idle /\ li_done = Idle

(***************************************************************************)
(* The file.  A byte of the file is a record [kind, a, b, c]:              *)
(*   "meta"    byte c of the meta data                                     *)
(*   "zero"    a byte written while seeking forward                        *)
(*   "offset"  byte c of a little-endian u64, a its value                  *)
(*   "chunk"   byte c of the chunk of layer a with y coordinate b          *)
(***************************************************************************)
ByteOf(kind, a, b, c) == [kind |-> kind, a |-> a, b |-> b, c |-> c]

\* Write::write_all on a Tracking writer: the bytes go to byte_position,
\* over what is there, and the position advances.
write_all(w, bs) ==
    LET p == w.byte_position
        n == Max(Len(w.bytes), p + Len(bs))
    IN  [bytes |-> [k \in 1..n |->
                      IF k > p /\ k <= p + Len(bs) THEN bs[k - p] ELSE w.bytes[k]],
         byte_position |-> p + Len(bs)]

\* Tracking::seek_write_to: seeks back, or writes zeros up to the target
seek_write_to(w, target) ==
    IF target < w.byte_position
    THEN [w EXCEPT !.byte_position = target]
    ELSE write_all(w, [k \in 1..(target - w.byte_position) |-> ByteOf("zero", 0, 0, 0)])

\* MetaData::write_validating_to_buffered: the magic number and the headers
meta_data_bytes(headers) ==
    [k \in 1..(1 + Len(headers)) |-> ByteOf("meta", 0, 0, k - 1)]

\* byte k of the little-endian representation of v
RECURSIVE le_byte(_, _)
le_byte(v, k) == IF k = 0 THEN v % 256 ELSE le_byte(v \div 256, k - 1)

\* u64::write_slice: each value as 8 little-endian bytes
u64_bytes(v) ==
    [k \in 1..U64Bytes |-> ByteOf("offset", le_byte(v, k - 1), 0, k - 1)]

\* the value of little-endian bytes
RECURSIVE le_value(_)
le_value(bs) == IF bs = <<>> THEN 0 ELSE Head(bs) + 256 * le_value(Tail(bs))

\* u64::read of the 8 bytes at a position of the file
u64_at(bytes, position) ==
    le_value([k \in 1..U64Bytes |-> bytes[position + k].a])

\* Chunk::write: the chunk's coordinates and size, then the compressed pixels
chunk_bytes(chunk) ==
    [k \in 1..(1 + Len(chunk.block.compressed_pixels)) |->
        ByteOf("chunk", chunk.layer_index, chunk.block.y_coordinate, k - 1)]

(***************************************************************************)
(* BlockIndex::line_indices.  The LineIter is the record                   *)
(*   [layer, level, width, end_y, x, channel_sizes, byte, channel, y];     *)
(* an item is [bytes, line]: the byte range <<start, end>> (end excluded)  *)
(* and the LineIndex [layer, channel, level, position, sample_count].      *)
(***************************************************************************)
\* blocks and channel lists of the model
MaxBlockWidth == 2
MaxBlockHeight == 3
MaxChannels == 3

\* SampleType::bytes_per_sample: f16 has 2 bytes, f32 and u32 have 4
BytesPerSample == {2, 4}

\* lines 760-775: the iterator that line_indices returns
\* a variant that ends at the block's height and leaves its position out
line_iter_new_relative(index, channels) ==
    [layer |-> index.layer,
     level |-> index.level,
     width |-> index.pixel_size[1],
     x |-> index.pixel_position[1],
     end_y |-> index.pixel_size[2],
     channel_sizes |-> [c \in 1..Len(channels) |-> index.pixel_size[1] * channels[c]],
     byte |-> 0,
     channel |-> 0,
     y |-> index.pixel_position[2]]

\* lines 760-775: the construction of the LineIter
line_iter_new(index, channels) ==
    [layer |-> index.layer,
     level |-> index.level,
     width |-> index.pixel_size[1],
     x |-> index.pixel_position[1],
     end_y |-> index.pixel_position[2] + index.pixel_size[2],
     channel_sizes |-> [c \in 1..Len(channels) |-> index.pixel_size[1] * channels[c]],
     byte |-> 0,
     channel |-> 0,
     y |-> index.pixel_position[2]]

\* a variant that takes the sample count of a line for its byte length
line_iter_next_samples(it) ==
    IF it.y < it.end_y
    THEN LET byte_len == it.width
             wrap == it.channel + 1 = Len(it.channel_sizes)
         IN  [some |-> TRUE,
              item |-> [bytes |-> << it.byte, it.byte + byte_len >>,
                        line |-> [channel |-> it.channel, layer |-> it.layer,
                                  level |-> it.level, position |-> << it.x, it.y >>,
                                  sample_count |-> it.width]],
              iter |-> [it EXCEPT !.byte = it.byte + byte_len,
                                  !.channel = IF wrap THEN 0 ELSE it.channel + 1,
                                  !.y = IF wrap THEN it.y + 1 ELSE it.y]]
    ELSE [some |-> FALSE, item |-> <<>>, iter |-> it]

\* lines 725-757: LineIter::next
line_iter_next(it) ==
    IF it.y < it.end_y
    THEN LET byte_len == it.channel_sizes[it.channel + 1]
             wrap == it.channel + 1 = Len(it.channel_sizes)
         IN  [some |-> TRUE,
              item |-> [bytes |-> << it.byte, it.byte + byte_len >>,
                        line |-> [channel |-> it.channel, layer |-> it.layer,
                                  level |-> it.level, position |-> << it.x, it.y >>,
                                  sample_count |-> it.width]],
              iter |-> [it EXCEPT !.byte = it.byte + byte_len,
                                  !.channel = IF wrap THEN 0 ELSE it.channel + 1,
                                  !.y = IF wrap THEN it.y + 1 ELSE it.y]]
    ELSE [some |-> FALSE, item |-> <<>>, iter |-> it]

\* all items of an iterator, in order
RECURSIVE collect_lines(_)
collect_lines(it) ==
    LET n == line_iter_next(it)
    IN  IF n.some THEN << n.item >> \o collect_lines(n.iter) ELSE <<>>

\* a variant that yields the lines of a block from the last to the first
line_indices_backwards(index, channels) ==
    Reverse(collect_lines(line_iter_new(index, channels)))

\* BlockIndex::line_indices, collected
line_indices(index, channels) == collect_lines(line_iter_new(index, channels))

(***************************************************************************)
(* write_all_lines_to_buffered, up to the call of                          *)
(* for_compressed_blocks_in_image.                                         *)
(***************************************************************************)
has_compression(headers) ==
    \E k \in 1..Len(headers) : headers[k].compression # "Uncompressed"

\* a variant that writes the line orders as they were handed in
rewrite_line_order_never(headers, parallel_option) == headers

\* if non-parallel compression, we always use increasing order anyways
rewrite_line_order(headers, parallel_option) ==
    IF ~parallel_option \/ ~has_compression(headers)
    THEN [k \in 1..Len(headers) |->
            IF headers[k].line_order = "Unspecified"
            THEN [headers[k] EXCEPT !.line_order = "Increasing"]
            ELSE headers[k]]
    ELSE headers

\* a variant that counts the chunks of the first header only
offset_table_size_of_first(headers) == headers[1].chunk_count

\* lines 666-667: the number of entries of all offset tables
offset_table_size(headers) ==
    SumSeq([k \in 1..Len(headers) |-> headers[k].chunk_count])

\* parallel && any header is compressed
parallel(headers, parallel_option) ==
    parallel_option /\ has_compression(headers)

\* a variant that never sorts: chunks are written as they arrive
requires_sorting_never(headers) == FALSE

requires_sorting(headers) ==
    \E k \in 1..Len(headers) : headers[k].line_order # "Unspecified"

\* the (layer, chunk) ids in the order which must be apparent in the file
expected_ids(headers) ==
    Flatten([k \in 1..Len(headers) |->
        LET order == enumerate_ordered_blocks(headers[k])
        IN  [j \in 1..Len(order) |-> <<k - 1, order[j]>>]])

\* a variant whose block iterator stops one block early in each header
uncompressed_image_blocks_short(headers) ==
    Flatten([k \in 1..Len(headers) |->
        LET order == enumerate_ordered_blocks(headers[k])
        IN  [j \in 1..(Len(order) - 1) |->
                LET tile == scan_line_location(order[j])
                    data_indices == get_absolute_block_indices(headers[k], tile)
                IN  [chunk_index |-> order[j],
                     index |-> [layer |-> k - 1, level |-> tile.level_index,
                                pixel_position |-> data_indices.position,
                                pixel_size |-> data_indices.size]]]])

\* uncompressed_image_blocks_ordered: per header, per ordered block, the
\* chunk index and the BlockIndex of the block
uncompressed_image_blocks_ordered(headers) ==
    Flatten([k \in 1..Len(headers) |->
        LET order == enumerate_ordered_blocks(headers[k])
        IN  [j \in 1..Len(order) |->
                LET tile == scan_line_location(order[j])
                    data_indices == get_absolute_block_indices(headers[k], tile)
                IN  [chunk_index |-> order[j],
                     index |-> [layer |-> k - 1, level |-> tile.level_index,
                                pixel_position |-> data_indices.position,
                                pixel_size |-> data_indices.size]]]])

\* a variant that records the position behind the chunk instead of its start
write_chunk_offset_after(w, chunk_index, chunk) ==
    LET position == w.write.byte_position
        written == write_all(w.write, chunk_bytes(chunk))
    IN  [w EXCEPT
            !.write = written,
            !.offset_tables[chunk.layer_index + 1][chunk_index + 1] = written.byte_position,
            !.processed_chunk_count = w.processed_chunk_count + 1,
            !.write_calls = Append(w.write_calls,
                [layer |-> chunk.layer_index, chunk_index |-> chunk_index,
                 y_coordinate |-> chunk.block.y_coordinate, position |-> position])]

\* no call of the run returns an error
\* the thread that called the read or the write function
calling_thread == "coordinator"

\* lines 385, 572: par_bridge has the threads of the pool pull the items from
\* the iterator it is given, one thread at a time
par_bridge_thread == "worker"

NoFault == [kind |-> "none"]

\* the closure has returned no error; the function has not returned yet
NoError == "no error"
NotReturned == "not returned"

\* the fault of this run strikes the call-th call of this kind
strikes(kind, call) ==
    /\ fault.kind = kind
    /\ fault.call = call

\* lines 678-688: the closure handed to for_compressed_blocks_in_image, on
\* the state w = [write, offset_tables, processed_chunk_count, write_calls,
\* progress, error]: the table entry, chunk.write, on_write_progressed, and
\* the count
write_chunk(w, chunk_index, chunk) ==
    LET position == w.write.byte_position
        call == Len(w.write_calls) + 1
        entered == [w EXCEPT
            !.offset_tables[chunk.layer_index + 1][chunk_index + 1] = position,
            !.write_calls = Append(w.write_calls,
                [layer |-> chunk.layer_index, chunk_index |-> chunk_index,
                 y_coordinate |-> chunk.block.y_coordinate, position |-> position])]
        written == [entered EXCEPT !.write = write_all(w.write, chunk_bytes(chunk))]
        reported == [written EXCEPT
            !.progress = Append(w.progress,
                [processed |-> w.processed_chunk_count,
                 total |-> offset_table_size(meta_data),
                 bytes_written |-> written.write.byte_position,
                 chunks_written |-> call])]
    IN  IF strikes("chunk.write", call)
        THEN [entered EXCEPT !.error = "Io"]
        ELSE IF strikes("on_progress", Len(w.progress) + 1)
        THEN [reported EXCEPT !.error = "Aborted"]
        ELSE [reported EXCEPT !.processed_chunk_count = w.processed_chunk_count + 1]

WriterState ==
    [write |-> write, offset_tables |-> offset_tables,
     processed_chunk_count |-> processed_chunk_count, write_calls |-> write_calls,
     progress |-> progress, error |-> NoError]

\* a variant in which an error of the closure does not end the function
SetWriter_going_on(w) ==
    /\ write' = w.write
    /\ offset_tables' = w.offset_tables
    /\ processed_chunk_count' = w.processed_chunk_count
    /\ write_calls' = w.write_calls
    /\ progress' = w.progress
    /\ UNCHANGED << wpc, write_return >>

\* the closure's state after its calls; its error ends the function (the ?
\* of lines 586, 610, 624 and 688), otherwise it goes on at wpc
SetWriter(w) ==
    /\ write' = w.write
    /\ offset_tables' = w.offset_tables
    /\ processed_chunk_count' = w.processed_chunk_count
    /\ write_calls' = w.write_calls
    /\ progress' = w.progress
    /\ IF w.error # NoError
       THEN wpc' = "error" /\ write_return' = w.error
       ELSE UNCHANGED << wpc, write_return >>

\* an error that ends the function before it has written
Return(error) ==
    /\ wpc' = "error"
    /\ write_return' = error
    /\ UNCHANGED << write, offset_tables, processed_chunk_count, write_calls, progress >>

\* what compress_image_section can return: some bytes
CompressedData == {[k \in 1..n |-> 0] : n \in {1, MaxChunkBytes}}

\* the bytes drawn for a chunk: of both lengths in the runs without a fault,
\* of one length in the runs with one
compressed_bytes ==
    IF fault.kind = "none" THEN CompressedData ELSE {<< 0 >>}

(***************************************************************************)
(* The images written: scan line headers of one f16 channel, one pixel     *)
(* wide, whose last block is a partial one.                                *)
(***************************************************************************)
DataPositionsY == {-1}

\* headers (layers) per image
HeaderCounts == {1, 2}

WriteHeader(line_order, compression, chunk_count, y) ==
    [line_order |-> line_order, compression |-> compression,
     chunk_count |-> chunk_count, data_position |-> <<0, y>>,
     data_size |-> <<1, (chunk_count - 1) * scan_lines_per_block(compression) + 1>>,
     blocks |-> "ScanLines", tile_size |-> <<1, 1>>, channels |-> <<2>>]

WriteHeaders ==
    {WriteHeader(o, c, n, y) :
        o \in LineOrders, c \in Compressions, n \in 1..MaxChunks, y \in DataPositionsY}

WriteMetaDatas == UNION {[1..n -> WriteHeaders] : n \in HeaderCounts}

\* the state of a write at its call, but for the fault
StartOfWrite ==
    /\ IdleLines /\ IdleChunk /\ IdleRead /\ IdleHuf /\ IdleCanon /\ IdleBits
    /\ IdleBuffer /\ IdleUnpack /\ IdleBuild
    /\ meta_data_given = meta_data
    /\ parallel_compression \in BOOLEAN
    /\ wpc = "start"
    /\ write = [bytes |-> <<>>, byte_position |-> 0]
    /\ offset_table_start_byte = 0
    /\ offset_tables = <<>>
    /\ processed_chunk_count = 0
    /\ write_calls = <<>>
    /\ blocks = <<>>
    /\ compressing = {}
    /\ channel = <<>>
    /\ expected_id_order = <<>>
    /\ next_id = None
    /\ pending_blocks = <<>>
    /\ write_return = NotReturned
    /\ progress = <<>>
    /\ get_line_log = <<>>
    /\ executed = {}

\* a write in which no call returns an error
InitWrite ==
    /\ meta_data \in WriteMetaDatas
    /\ fault = NoFault
    /\ StartOfWrite

\* the calls of a write that can return an error: get_line for a line (the
\* first two of a layer and the first of a second block of 16 lines), compress_image_section for a block,
\* and on_write_progressed and chunk.write by their call number
WriteFaults(headers) ==
    {[kind |-> "get_line", layer |-> k - 1, y |-> y, channel |-> 0] :
        k \in 1..Len(headers), y \in {0, 1, 16}}
    \cup {[kind |-> "compress", layer |-> k - 1, chunk_index |-> j] :
        k \in 1..Len(headers), j \in 0..(MaxChunks - 1)}
    \cup {[kind |-> kind, call |-> n] :
        kind \in {"on_progress", "chunk.write"}, n \in 1..offset_table_size(headers)}

\* a write in which one call may return an error: a fault for a line or a
\* block that the image does not have never strikes
InitWriteFaults ==
    /\ meta_data \in WriteMetaDatas
    /\ fault \in WriteFaults(meta_data)
    /\ StartOfWrite

\* lines 648-675, and the iterator of line 560
BeginWrite ==
    /\ wpc = "start"
    /\ LET headers == rewrite_line_order(meta_data, parallel_compression)
           w1 == write_all(write, meta_data_bytes(headers))
           start == w1.byte_position
           w2 == seek_write_to(w1, start + offset_table_size(headers) * U64Bytes)
       IN  /\ meta_data' = headers
           /\ write' = w2
           /\ offset_table_start_byte' = start
           /\ offset_tables' =
                [k \in 1..Len(headers) |-> [j \in 1..headers[k].chunk_count |-> 0]]
           /\ blocks' = uncompressed_image_blocks_ordered(headers)
    /\ wpc' = "blocks"
    /\ UNCHANGED << meta_data_given, parallel_compression, processed_chunk_count,
                    write_calls, compressing, channel, expected_id_order, next_id,
                    pending_blocks, fault, write_return, progress, get_line_log,
                    executed >>
    /\ UNCHANGED other_than_write

\* lines 519-533: the get_line calls of a block, one per item of
\* line_indices, up to and with the one that returns an error, each as
\* <<layer, chunk_index, y, channel, result>>
get_line_calls(block) ==
    LET lines == line_indices(block.index, meta_data[block.index.layer + 1].channels)
        aborts(k) == /\ fault.kind = "get_line"
                     /\ fault.layer = lines[k].line.layer
                     /\ fault.y = lines[k].line.position[2]
                     /\ fault.channel = lines[k].line.channel
        aborting == {k \in 1..Len(lines) : aborts(k)}
        last == IF aborting = {} THEN Len(lines)
                ELSE CHOOSE k \in aborting : \A other \in aborting : k <= other
    IN  [k \in 1..last |->
            << lines[k].line.layer, block.chunk_index, lines[k].line.position[2],
               lines[k].line.channel, IF aborts(k) THEN "Aborted" ELSE "Ok" >>]

\* a variant that drops the error of get_line
get_line_failed_never(block) == FALSE

\* the item of the block iterator is an Err
get_line_failed(block) ==
    LET calls == get_line_calls(block)
    IN  calls # <<>> /\ calls[Len(calls)][5] = "Aborted"

\* a compression that never returns an error
compress_failed_never(block) == FALSE

\* line 825: compress_image_section returns an error for this block
compress_failed(block) ==
    /\ fault.kind = "compress"
    /\ fault.layer = block.index.layer
    /\ fault.chunk_index = block.chunk_index

\* lines 621-625: one iteration of the sequential loop
SequentialBlock ==
    /\ wpc = "blocks"
    /\ ~parallel(meta_data, parallel_compression)
    /\ blocks # <<>>
    /\ blocks' = Tail(blocks)
    /\ get_line_log' = get_line_log \o get_line_calls(Head(blocks))
    /\ IF get_line_failed(Head(blocks))
       THEN /\ Return("Aborted")
            /\ executed' = executed \cup {<< "get_line", "coordinator" >>}
       ELSE IF compress_failed(Head(blocks))
       THEN /\ Return("Invalid")
            /\ executed' = executed \cup {<< "get_line", "coordinator" >>,
                                          << "compress_to_chunk", "coordinator" >>}
       ELSE \E compressed_data \in compressed_bytes :
            LET block == Head(blocks)
                chunk == chunk_of(block.index, meta_data[block.index.layer + 1],
                                  compressed_data)
                w == write_chunk(WriterState, block.chunk_index, chunk)
            IN  /\ SetWriter(w)
                /\ executed' = executed \cup {<< "get_line", "coordinator" >>,
                                              << "compress_to_chunk", "coordinator" >>,
                                              << "write_chunk", "coordinator" >>}
    /\ UNCHANGED << meta_data_given, meta_data, parallel_compression, offset_table_start_byte,
                    compressing, channel, expected_id_order, next_id, pending_blocks,
                    fault >>
    /\ UNCHANGED other_than_write

\* the sequential loop ends: line 628
SequentialEnd ==
    /\ wpc = "blocks"
    /\ ~parallel(meta_data, parallel_compression)
    /\ blocks = <<>>
    /\ wpc' = "tables"
    /\ UNCHANGED << meta_data_given, meta_data, parallel_compression, write, offset_table_start_byte,
                    offset_tables, processed_chunk_count, write_calls, blocks,
                    compressing, channel, expected_id_order, next_id, pending_blocks,
                    fault, write_return, progress, get_line_log, executed >>
    /\ UNCHANGED other_than_write

\* par_bridge: an idle pool thread locks the shared iterator and pulls the
\* next block from it, which calls get_line for the lines of the block; an
\* Err item ends try_for_each_with and the function (line 580)
WorkerTake ==
    /\ wpc = "blocks"
    /\ parallel(meta_data, parallel_compression)
    /\ Cardinality(compressing) < NumWorkers
    /\ blocks # <<>>
    /\ blocks' = Tail(blocks)
    /\ get_line_log' = get_line_log \o get_line_calls(Head(blocks))
    /\ executed' = executed \cup {<< "get_line", par_bridge_thread >>}
    /\ IF get_line_failed(Head(blocks))
       THEN /\ Return("Aborted")
            /\ UNCHANGED compressing
       ELSE /\ compressing' = compressing \cup {Head(blocks)}
            /\ UNCHANGED << wpc, write_return, write, offset_tables,
                            processed_chunk_count, write_calls, progress >>
    /\ UNCHANGED << meta_data_given, meta_data, parallel_compression, offset_table_start_byte,
                    channel, expected_id_order, next_id, pending_blocks, fault >>
    /\ UNCHANGED other_than_write

\* lines 573-580: the thread compresses its block and sends the chunk; an
\* error ends try_for_each_with and the function
WorkerSend ==
    /\ wpc = "blocks"
    /\ \E block \in compressing :
        /\ compressing' = compressing \ {block}
        /\ IF compress_failed(block)
           THEN /\ Return("Invalid")
                /\ UNCHANGED channel
           ELSE /\ \E compressed_data \in compressed_bytes :
                    channel' = Append(channel,
                        << block.chunk_index,
                           chunk_of(block.index, meta_data[block.index.layer + 1],
                                    compressed_data) >>)
                /\ UNCHANGED << wpc, write_return, write, offset_tables,
                                processed_chunk_count, write_calls, progress >>
    /\ executed' = executed \cup {<< "compress_to_chunk", "worker" >>}
    /\ UNCHANGED << meta_data_given, meta_data, parallel_compression, offset_table_start_byte,
                    blocks, expected_id_order, next_id, pending_blocks, fault,
                    get_line_log >>
    /\ UNCHANGED other_than_write

\* Iterator::next on a sequence: the item (None at the end) and the rest
iter_next(it) ==
    IF it = <<>> THEN [item |-> None, rest |-> <<>>]
    ELSE [item |-> Head(it), rest |-> Tail(it)]

\* try_for_each_with returns (line 580); lines 594-601
PoolDone ==
    /\ wpc = "blocks"
    /\ parallel(meta_data, parallel_compression)
    /\ blocks = <<>>
    /\ compressing = {}
    /\ wpc' = "receive"
    /\ IF requires_sorting(meta_data)
       THEN LET first == iter_next(expected_ids(meta_data))
            IN  /\ expected_id_order' = first.rest
                /\ next_id' = first.item
       ELSE UNCHANGED << expected_id_order, next_id >>
    /\ UNCHANGED << meta_data_given, meta_data, parallel_compression, write, offset_table_start_byte,
                    offset_tables, processed_chunk_count, write_calls, blocks,
                    compressing, channel, pending_blocks, fault, write_return,
                    progress, get_line_log, executed >>
    /\ UNCHANGED other_than_write

\* lines 585-587: one iteration of the loop that writes in arrival order
ReceiveUnsorted ==
    /\ wpc = "receive"
    /\ ~requires_sorting(meta_data)
    /\ channel # <<>>
    /\ SetWriter(write_chunk(WriterState, Head(channel)[1], Head(channel)[2]))
    /\ executed' = executed \cup {<< "write_chunk", "coordinator" >>}
    /\ channel' = Tail(channel)
    /\ UNCHANGED << meta_data_given, meta_data, parallel_compression, offset_table_start_byte,
                    blocks, compressing, expected_id_order, next_id, pending_blocks,
                    fault, get_line_log >>
    /\ UNCHANGED other_than_write

\* a variant that keys the pending chunks by their chunk index alone
pending_key_chunk_only(chunk_index, compressed_chunk) ==
    << 0, chunk_index >>

\* line 605: the key of a received chunk in pending_blocks
pending_key(chunk_index, compressed_chunk) ==
    << compressed_chunk.layer_index, chunk_index >>

map_insert(map, key, value) ==
    [k \in DOMAIN map \cup {key} |-> IF k = key THEN value ELSE map[k]]

\* a variant that leaves the key in the map
map_remove_nothing(map, key) == map

map_remove(map, key) ==
    [k \in DOMAIN map \ {key} |-> map[k]]

\* lines 608-612: write all pending blocks that are immediate successors, on
\* s = [w, pending_blocks, next_id, expected_id_order]
RECURSIVE write_pending(_)
write_pending(s) ==
    IF s.w.error = NoError /\ s.next_id # None /\ s.next_id \in DOMAIN s.pending_blocks
    THEN LET pending_chunk == s.pending_blocks[s.next_id]
             pending_chunk_index == s.next_id[2]
             following == iter_next(s.expected_id_order)
             written == write_chunk(s.w, pending_chunk_index, pending_chunk)
         IN  IF written.error # NoError
             THEN [s EXCEPT !.w = written,
                            !.pending_blocks = map_remove(s.pending_blocks, s.next_id)]
             ELSE write_pending(
                    [w |-> written,
                     pending_blocks |-> map_remove(s.pending_blocks, s.next_id),
                     next_id |-> following.item,
                     expected_id_order |-> following.rest])
    ELSE s

\* lines 604-613: one iteration of the loop that writes with sorting
ReceiveSorted ==
    /\ wpc = "receive"
    /\ requires_sorting(meta_data)
    /\ channel # <<>>
    /\ LET chunk_index == Head(channel)[1]
           compressed_chunk == Head(channel)[2]
           inserted == map_insert(pending_blocks,
                                  pending_key(chunk_index, compressed_chunk),
                                  compressed_chunk)
           s == write_pending([w |-> WriterState, pending_blocks |-> inserted,
                               next_id |-> next_id,
                               expected_id_order |-> expected_id_order])
       IN  /\ SetWriter(s.w)
           /\ executed' = IF s.w.write_calls # write_calls
                          THEN executed \cup {<< "write_chunk", "coordinator" >>}
                          ELSE executed
           /\ pending_blocks' = s.pending_blocks
           /\ next_id' = s.next_id
           /\ expected_id_order' = s.expected_id_order
    /\ channel' = Tail(channel)
    /\ UNCHANGED << meta_data_given, meta_data, parallel_compression, offset_table_start_byte,
                    blocks, compressing, fault, get_line_log >>
    /\ UNCHANGED other_than_write

\* the receiver is exhausted: the assertions of lines 615-616, then line 628
ReceiveEnd ==
    /\ wpc = "receive"
    /\ channel = <<>>
    /\ IF requires_sorting(meta_data)
       THEN LET last == iter_next(expected_id_order)
            IN  /\ expected_id_order' = last.rest
                /\ wpc' = IF last.item # None THEN "panic: expected more blocks bug"
                          ELSE IF DOMAIN pending_blocks # {}
                          THEN "panic: pending blocks left after processing bug"
                          ELSE "tables"
       ELSE /\ wpc' = "tables"
            /\ UNCHANGED expected_id_order
    /\ UNCHANGED << meta_data_given, meta_data, parallel_compression, write, offset_table_start_byte,
                    offset_tables, processed_chunk_count, write_calls, blocks,
                    compressing, channel, next_id, pending_blocks, fault, write_return,
                    progress, get_line_log, executed >>
    /\ UNCHANGED other_than_write

\* lines 690-699: write all offset tables
WriteOffsetTables ==
    /\ wpc = "tables"
    /\ LET at_start == seek_write_to(write, offset_table_start_byte)
           table_bytes == Flatten([k \in 1..Len(offset_tables) |->
                Flatten([j \in 1..Len(offset_tables[k]) |-> u64_bytes(offset_tables[k][j])])])
       IN  write' = write_all(at_start, table_bytes)
    /\ wpc' = "done"
    /\ write_return' = "Ok"
    /\ executed' = executed \cup {<< "offset_tables", "coordinator" >>}
    /\ UNCHANGED << meta_data_given, meta_data, parallel_compression, offset_table_start_byte,
                    offset_tables, processed_chunk_count, write_calls, blocks,
                    compressing, channel, expected_id_order, next_id, pending_blocks,
                    fault, progress, get_line_log >>
    /\ UNCHANGED other_than_write

NextWrite ==
    \/ BeginWrite
    \/ SequentialBlock
    \/ SequentialEnd
    \/ WorkerTake
    \/ WorkerSend
    \/ PoolDone
    \/ ReceiveUnsorted
    \/ ReceiveSorted
    \/ ReceiveEnd
    \/ WriteOffsetTables

SpecWrite == InitWrite /\ [][NextWrite]_vars

\* the writes in which one call returns an error
SpecWriteFaults == InitWriteFaults /\ [][NextWrite]_vars

(***************************************************************************)
(* Claims about the write pipeline, checked under SpecWrite.               *)
(***************************************************************************)
\* the (layer, chunk_index) of each write_chunk invocation, in order
written_ids == [k \in 1..Len(write_calls) |->
                    << write_calls[k].layer, write_calls[k].chunk_index >>]

\* the y coordinate a scan line chunk of a header must carry
expected_y_coordinate(header, chunk_index) ==
    chunk_index * scan_lines_per_block(header.compression) + header.data_position[2]

sorted_parallel_mode ==
    /\ wpc # "start"
    /\ parallel_compression
    /\ has_compression(meta_data)
    /\ \E k \in 1..Len(meta_data) : meta_data[k].line_order # "Unspecified"

\* C1: in parallel mode with a header whose line order is not Unspecified,
\* whatever the order in which the chunks arrive, write_chunk is invoked in
\* exactly the expected id order (headers in index order, each header in the
\* order of enumerate_ordered_blocks); once the receiver is exhausted every
\* chunk has been written, the pending map is empty, the expected order is
\* exhausted, and no assertion has fired.
C1_SortedWritesFollowExpectedOrder ==
    sorted_parallel_mode =>
        LET expected == expected_ids(meta_data)
        IN  /\ Len(written_ids) <= Len(expected)
            /\ written_ids = SubSeq(expected, 1, Len(written_ids))
            /\ wpc \in {"blocks", "receive", "tables", "done"}
            /\ wpc \in {"tables", "done"} =>
                    /\ written_ids = expected
                    /\ DOMAIN pending_blocks = {}
                    /\ expected_id_order = <<>>
                    /\ next_id = None

\* a chunk that arrived early is held back while an earlier one was written
C1_Witness ==
    /\ sorted_parallel_mode
    /\ wpc = "receive"
    /\ Len(write_calls) >= 1
    /\ DOMAIN pending_blocks # {}
    /\ channel # <<>>

\* the position in the file of entry chunk_index of the table of a layer
table_entry_position(layer, chunk_index) ==
    offset_table_start_byte
        + U64Bytes * (offset_table_size(SubSeq(meta_data, 1, layer)) + chunk_index)

\* C2: after a successful write, in every mode, each offset table entry, in
\* memory and as written to the file, is the byte position at which the first
\* byte of its chunk was written.
C2_OffsetsPointToChunkStarts ==
    wpc = "done" =>
        \A k \in 1..Len(meta_data) : \A j \in 1..meta_data[k].chunk_count :
            LET offset == offset_tables[k][j]
            IN  /\ offset + 1 \in 1..Len(write.bytes)
                /\ write.bytes[offset + 1] =
                      ByteOf("chunk", k - 1, expected_y_coordinate(meta_data[k], j - 1), 0)
                /\ u64_at(write.bytes, table_entry_position(k - 1, j - 1)) = offset

\* a finished parallel write in arrival order that differs from the id order
C2_Witness ==
    /\ wpc = "done"
    /\ parallel(meta_data, parallel_compression)
    /\ ~requires_sorting(meta_data)
    /\ written_ids # expected_ids(meta_data)

\* (layer_index, y_coordinate) pairs in lexicographic order
layer_y_leq(a, b) ==
    \/ a.layer < b.layer
    \/ a.layer = b.layer /\ a.y_coordinate <= b.y_coordinate

\* C3: when every header's line order is Increasing, in every write mode the
\* (layer_index, y_coordinate) of the chunks, in the order in which they are
\* written, never decreases.
C3_IncreasingLineOrder ==
    (\A k \in 1..Len(meta_data) : meta_data[k].line_order = "Increasing") =>
        \A a, b \in 1..Len(write_calls) :
            a < b => layer_y_leq(write_calls[a], write_calls[b])

\* a parallel write of two Increasing layers has written several chunks
C3_Witness ==
    /\ wpc = "done"
    /\ parallel(meta_data, parallel_compression)
    /\ Len(meta_data) >= 2
    /\ \A k \in 1..Len(meta_data) :
            meta_data[k].line_order = "Increasing" /\ meta_data[k].chunk_count >= 2
    /\ Len(write_calls) >= 4

\* C4: in a successful write, write_chunk has been invoked exactly once for
\* each (layer, chunk_index) with chunk_index < chunk_count and for no other
\* pair, each offset table has chunk_count entries, and the entries hold
\* pairwise different positions behind the tables.
C4_EachChunkWrittenOnce ==
    wpc = "done" =>
        /\ Len(write_calls) = offset_table_size(meta_data)
        /\ Len(offset_tables) = Len(meta_data)
        /\ \A k \in 1..Len(meta_data) :
            /\ Len(offset_tables[k]) = meta_data[k].chunk_count
            /\ \A j \in 1..meta_data[k].chunk_count :
                /\ Cardinality({c \in 1..Len(write_calls) :
                        written_ids[c] = << k - 1, j - 1 >>}) = 1
                /\ offset_tables[k][j] >=
                        offset_table_start_byte + U64Bytes * offset_table_size(meta_data)
        /\ \A c \in 1..Len(write_calls) :
            /\ write_calls[c].layer + 1 \in 1..Len(meta_data)
            /\ write_calls[c].chunk_index \in
                    0..(meta_data[write_calls[c].layer + 1].chunk_count - 1)
            /\ offset_tables[write_calls[c].layer + 1][write_calls[c].chunk_index + 1]
                    = write_calls[c].position
        /\ \A a, b \in 1..Len(write_calls) :
            a # b => write_calls[a].position # write_calls[b].position

\* a finished write of several chunks in decreasing line order
C4_Witness ==
    /\ wpc = "done"
    /\ Len(write_calls) >= 3
    /\ \E k \in 1..Len(meta_data) :
            meta_data[k].line_order = "Decreasing" /\ meta_data[k].chunk_count >= 2

(***************************************************************************)
(* Claims about writes in which a call returns an error, checked under     *)
(* SpecWriteFaults.                                                        *)
(***************************************************************************)
\* get_line has returned Aborted
get_line_aborted ==
    /\ get_line_log # <<>>
    /\ get_line_log[Len(get_line_log)][5] = "Aborted"

\* the number of lines of a block of a layer
lines_of_block(layer, chunk_index) ==
    LET header == meta_data[layer + 1]
    IN  get_absolute_block_indices(header, scan_line_location(chunk_index)).size[2]
            * Len(header.channels)

\* the get_line calls for a block that returned Ok
lines_produced(layer, chunk_index) ==
    {k \in 1..Len(get_line_log) :
        /\ get_line_log[k][1] = layer
        /\ get_line_log[k][2] = chunk_index
        /\ get_line_log[k][5] = "Ok"}

\* C11: once get_line has returned Aborted, in sequential and in parallel
\* mode, write_all_lines_to_buffered has returned Aborted, and every chunk
\* that write_chunk has got is the chunk of a block all of whose lines were
\* produced before the aborting line; the block of the aborting line is not
\* among them.
C11_AbortWritesOnlyCompletedBlocks ==
    get_line_aborted =>
        LET aborting == get_line_log[Len(get_line_log)]
        IN  /\ wpc = "error"
            /\ write_return = "Aborted"
            /\ \A c \in 1..Len(write_calls) :
                /\ << write_calls[c].layer, write_calls[c].chunk_index >>
                        # << aborting[1], aborting[2] >>
                /\ Cardinality(lines_produced(write_calls[c].layer,
                                              write_calls[c].chunk_index))
                        = lines_of_block(write_calls[c].layer, write_calls[c].chunk_index)
            /\ Len(write.bytes) = write.byte_position
            /\ \A k \in 1..Len(write.bytes) :
                    write.bytes[k].kind = "chunk" =>
                        \E c \in 1..Len(write_calls) :
                            /\ write.bytes[k].a = write_calls[c].layer
                            /\ write.bytes[k].b = write_calls[c].y_coordinate

\* a sequential write has written the chunk of its first block, of 16 lines,
\* and was aborted by a line of a later block
C11_Witness ==
    /\ get_line_aborted
    /\ ~parallel(meta_data, parallel_compression)
    /\ Len(write_calls) >= 1
    /\ Len(get_line_log) >= 17

\* the bytes the offset tables of all headers take in the file
reserved_bytes ==
    U64Bytes * SumSeq([k \in 1..Len(meta_data) |-> meta_data[k].chunk_count])

\* the values of the offset tables, header after header
table_values == Flatten(offset_tables)

\* C24: the writer reserves exactly 8 * sum(chunk_count) bytes behind the
\* meta data; every chunk is written at a position at or behind the end of
\* these bytes; the final write of the tables starts at
\* offset_table_start_byte, writes the tables of the layers in header order
\* and ends exactly at the position of the first chunk.
C24_TablesFillTheReservedBytes ==
    wpc # "start" =>
        LET first_chunk == offset_table_start_byte + reserved_bytes
        IN  /\ offset_table_start_byte = Len(meta_data_bytes(meta_data))
            /\ Len(write.bytes) >= first_chunk
            /\ write_calls = <<>> => Len(write.bytes) = first_chunk
            /\ write_calls # <<>> => write_calls[1].position = first_chunk
            /\ \A c \in 1..Len(write_calls) : write_calls[c].position >= first_chunk
            /\ \A k \in 1..Len(write.bytes) :
                    write.bytes[k].kind = "chunk" <=> k > first_chunk
            /\ wpc # "done" =>
                    \A k \in (offset_table_start_byte + 1)..first_chunk :
                        write.bytes[k].kind = "zero"
            /\ wpc = "done" =>
                    /\ write.byte_position = first_chunk
                    /\ Len(table_values) * U64Bytes = reserved_bytes
                    /\ \A n \in 1..Len(table_values) :
                        /\ u64_at(write.bytes, offset_table_start_byte + U64Bytes * (n - 1))
                                = table_values[n]
                        /\ \A b \in 1..U64Bytes :
                            write.bytes[offset_table_start_byte + U64Bytes * (n - 1) + b].kind
                                = "offset"

\* a write of two layers, one of them of two chunks, has written its tables
C24_Witness ==
    /\ wpc = "done"
    /\ Len(meta_data) >= 2
    /\ Len(write_calls) >= 3
    /\ offset_tables[1] # offset_tables[2]


\* the closure of write_all_lines_to_buffered has returned an error: the
\* fault has struck a call of chunk.write or of on_write_progressed
closure_failed ==
    \/ fault.kind = "chunk.write" /\ Len(write_calls) >= fault.call
    \/ fault.kind = "on_progress" /\ Len(progress) >= fault.call

\* a byte of an offset table is in the file
tables_in_file == \E k \in 1..Len(write.bytes) : write.bytes[k].kind = "offset"

\* C37: a write that ends in an error after the bytes of the offset tables
\* were reserved (an error of get_line, of the compression, of
\* on_write_progressed or of chunk.write) never seeks back to
\* offset_table_start_byte and writes no entry of an offset table; the
\* tables are in the file only when every chunk has been written.
C37_NoTablesAfterAnError ==
    wpc # "start" =>
        /\ (wpc = "error" \/ closure_failed) =>
            /\ wpc = "error"
            /\ write_return \in {"Io", "Aborted", "Invalid"}
            /\ ~tables_in_file
            /\ write.byte_position >= offset_table_start_byte + reserved_bytes
            /\ << "offset_tables", "coordinator" >> \notin executed
        /\ tables_in_file =>
            /\ wpc = "done"
            /\ Len(write_calls) = offset_table_size(meta_data)
            /\ processed_chunk_count = offset_table_size(meta_data)

\* a parallel write has written two chunks and its third call of chunk.write
\* has returned an error
C37_Witness ==
    /\ wpc = "error"
    /\ fault.kind = "chunk.write"
    /\ fault.call = 3
    /\ Len(write_calls) = 3
    /\ parallel(meta_data, parallel_compression)
    /\ write.byte_position > offset_table_start_byte + reserved_bytes

\* the get_line calls of one block of a layer: for each row from the top of
\* the block, for each channel in header order, one call that returns Ok
calls_of_block(layer, chunk_index) ==
    LET header == meta_data[layer + 1]
        rectangle == get_absolute_block_indices(header, scan_line_location(chunk_index))
        n == Len(header.channels)
    IN  [k \in 1..(rectangle.size[2] * n) |->
            << layer, chunk_index, rectangle.position[2] + (k - 1) \div n,
               (k - 1) % n, "Ok" >>]

\* the get_line calls of the image: the headers in index order, the blocks
\* of a header in the order of enumerate_ordered_blocks
calls_of_image ==
    Flatten([k \in 1..Len(meta_data) |->
        LET order == enumerate_ordered_blocks(meta_data[k])
        IN  Flatten([j \in 1..Len(order) |-> calls_of_block(k - 1, order[j])])])

\* C26: while no get_line call has returned an error, in sequential and in
\* parallel mode, the calls made so far are the first calls of the sequence
\* that goes through the headers in index order, through the blocks of a
\* header in enumerate_ordered_blocks order and through the lines of a
\* block in line_indices order; a write that returns Ok has made exactly
\* this sequence of calls: one call for every line of every block, the
\* calls of two blocks never interleaved.
C26_GetLineOncePerLineInOrder ==
    wpc # "start" =>
        /\ ~get_line_aborted =>
                /\ Len(get_line_log) <= Len(calls_of_image)
                /\ get_line_log = SubSeq(calls_of_image, 1, Len(get_line_log))
        /\ write_return = "Ok" => get_line_log = calls_of_image

\* a parallel write with a layer of two blocks in decreasing order has
\* returned Ok
C26_Witness ==
    /\ write_return = "Ok"
    /\ parallel(meta_data, parallel_compression)
    /\ Len(get_line_log) >= 4
    /\ \E k \in 1..Len(meta_data) :
            meta_data[k].line_order = "Decreasing" /\ meta_data[k].chunk_count >= 2
    /\ \E a, b \in 1..Len(get_line_log) :
            /\ a < b
            /\ get_line_log[a][1] = get_line_log[b][1]
            /\ get_line_log[a][2] > get_line_log[b][2]


(***************************************************************************)
(* Claims about the line order of a write, checked under SpecWriteFaults.  *)
(***************************************************************************)
\* the header with an Unspecified line order made Increasing
with_increasing_for_unspecified(header) ==
    IF header.line_order = "Unspecified"
    THEN [header EXCEPT !.line_order = "Increasing"]
    ELSE header

\* the loop that writes the chunks in the order of their arrival is running
arrival_order_branch == wpc = "receive" /\ ~requires_sorting(meta_data)

\* C18: when parallel_compression is off or no header is compressed, the
\* meta data written has Increasing for every Unspecified line order of the
\* meta data handed in and every other header as it was; then the chunks
\* are written in the order that the meta data alone gives, and the loop
\* that writes in arrival order runs only when parallel compression is used.
C18_UnspecifiedRewritten ==
    /\ (wpc # "start" /\ ~parallel(meta_data_given, parallel_compression))
        => /\ meta_data = [k \in 1..Len(meta_data_given) |->
                                with_increasing_for_unspecified(meta_data_given[k])]
           /\ Len(written_ids) <= Len(expected_ids(meta_data))
           /\ written_ids = SubSeq(expected_ids(meta_data), 1, Len(written_ids))
    /\ arrival_order_branch
        => parallel_compression /\ has_compression(meta_data_given)

\* parallel compression was asked for an image of two uncompressed layers,
\* one of them Unspecified, and the write has returned Ok
C18_Witness ==
    /\ parallel_compression
    /\ ~has_compression(meta_data_given)
    /\ Len(meta_data_given) = 2
    /\ meta_data_given[1].line_order = "Unspecified"
    /\ meta_data_given[2].line_order = "Decreasing"
    /\ write_return = "Ok"
    /\ Len(write_calls) >= 3


(***************************************************************************)
(* The iteration of the lines of the blocks within the bounds.              *)
(***************************************************************************)
LineBlockIndices ==
    [layer : {0, 1}, level : {<<0, 0>>},
     pixel_position : {<<0, 0>>, <<1, 2>>},
     pixel_size : (1..MaxBlockWidth) \X (1..MaxBlockHeight)]

ChannelLists == UNION {[1..n -> BytesPerSample] : n \in 1..MaxChannels}

InitLines ==
    /\ IdleWrite /\ IdleChunk /\ IdleRead /\ IdleHuf /\ IdleCanon /\ IdleBits
    /\ IdleBuffer /\ IdleUnpack /\ IdleBuild
    /\ li_block \in LineBlockIndices
    /\ li_channels \in ChannelLists
    /\ li_iter = line_iter_new(li_block, li_channels)
    /\ li_yielded = <<>>
    /\ li_done = FALSE

\* one call of next() on the iterator
LineIterNext ==
    /\ ~li_done
    /\ LET n == line_iter_next(li_iter)
       IN  /\ li_iter' = n.iter
           /\ li_yielded' = IF n.some THEN Append(li_yielded, n.item) ELSE li_yielded
           /\ li_done' = ~n.some
    /\ UNCHANGED << li_block, li_channels >>
    /\ UNCHANGED other_than_lines

NextLines == LineIterNext

SpecLines == InitLines /\ [][NextLines]_vars

\* C6: line_indices yields exactly h * n pairs; the byte ranges are adjacent
\* and ascending from 0, each w * bytes_per_sample(c) long, and end at
\* h * sum_c(w * bytes_per_sample(c)); pair k (from 0) addresses row
\* y0 + k div n and channel k mod n of the block's layer and level, at the
\* block's x, with sample count w.
C6_LineIndicesCoverBlock ==
    LET n == Len(li_channels)
        w == li_block.pixel_size[1]
        h == li_block.pixel_size[2]
    IN  /\ Len(li_yielded) <= h * n
        /\ li_done => Len(li_yielded) = h * n
        /\ \A k \in 1..Len(li_yielded) :
            LET item == li_yielded[k]
                c == (k - 1) % n
            IN  /\ item.bytes[1] = IF k = 1 THEN 0 ELSE li_yielded[k - 1].bytes[2]
                /\ item.bytes[2] - item.bytes[1] = w * li_channels[c + 1]
                /\ item.line = [channel |-> c, layer |-> li_block.layer,
                                level |-> li_block.level,
                                position |-> << li_block.pixel_position[1],
                                                li_block.pixel_position[2] + (k - 1) \div n >>,
                                sample_count |-> w]
        /\ (li_done /\ h * n > 0) =>
                li_yielded[h * n].bytes[2] = h * w * SumSeq(li_channels)

\* the iterator of a block of several rows and channels of different sample
\* sizes is exhausted
C6_Witness ==
    /\ li_done = TRUE
    /\ li_block.pixel_size[2] >= 2
    /\ Len(li_channels) >= 2
    /\ li_channels[1] # li_channels[2]
    /\ Len(li_yielded) >= 4

(***************************************************************************)
(* The chunk codec: compress_to_chunk and decompress_chunk.                *)
(* An UncompressedBlock is [index, data]; the results carry a status       *)
(* "Ok" | "Invalid" | "Unsupported" | "Panic".                             *)
(***************************************************************************)
\* run-length encoding, the stand-in for the compressing codecs: the bytes
\* as (count, value) pairs
RECURSIVE run_length_encode(_)
run_length_encode(data) ==
    IF data = <<>> THEN <<>>
    ELSE LET run == CHOOSE n \in 1..Len(data) :
                        /\ \A k \in 1..n : data[k] = data[1]
                        /\ n < Len(data) => data[n + 1] # data[1]
         IN  << run, data[1] >> \o run_length_encode(SubSeq(data, run + 1, Len(data)))

RECURSIVE run_length_decode(_)
run_length_decode(bytes) ==
    IF Len(bytes) < 2 THEN <<>>
    ELSE [k \in 1..bytes[1] |-> bytes[2]] \o run_length_decode(SubSeq(bytes, 3, Len(bytes)))

\* Compression::compress_image_section
compress_image_section(compression, data) ==
    IF compression = "Uncompressed" THEN data ELSE run_length_encode(data)

\* Compression::decompress_image_section: the bytes of the rectangle, or an
\* error when they do not fill it
decompress_image_section(header, compressed, rectangle) ==
    LET data == IF header.compression = "Uncompressed" THEN compressed
                ELSE run_length_decode(compressed)
    IN  IF Len(data) = bytes_per_pixel(header) * area(rectangle.size)
        THEN [status |-> "Ok", data |-> data]
        ELSE [status |-> "Invalid", data |-> <<>>]

\* a variant that knows tiles and scan line blocks and calls every other
\* block invalid
get_block_data_indices_of_flat_data(header, block) ==
    IF block.kind = "Tile"
    THEN [status |-> "Ok",
          tile |-> [tile_index |-> block.tile_index, level_index |-> block.level_index]]
    ELSE IF block.kind = "ScanLine" /\ block.y_coordinate >= header.data_position[2]
    THEN [status |-> "Ok",
          tile |-> scan_line_location((block.y_coordinate - header.data_position[2])
                                        \div scan_lines_per_block(header.compression))]
    ELSE [status |-> "Invalid", tile |-> scan_line_location(0)]

\* Header::get_block_data_indices: the tile coordinates of a chunk's block
get_block_data_indices(header, block) ==
    IF block.kind = "Tile"
    THEN [status |-> "Ok",
          tile |-> [tile_index |-> block.tile_index, level_index |-> block.level_index]]
    ELSE IF block.kind = "ScanLine"
    THEN LET y == block.y_coordinate - header.data_position[2]
         IN  IF y < 0
             THEN [status |-> "Invalid", tile |-> scan_line_location(0)]
             ELSE [status |-> "Ok",
                   tile |-> scan_line_location(y \div scan_lines_per_block(header.compression))]
    ELSE [status |-> "Unsupported", tile |-> scan_line_location(0)]

\* IntRect::validate against the data size
validate(rectangle, max) ==
    /\ rectangle.position[1] + rectangle.size[1] <= max[1]
    /\ rectangle.position[2] + rectangle.size[2] <= max[2]

NoBlock == [index |-> <<>>, data |-> <<>>]

\* a variant that takes the block's position for the chunk's y coordinate
\* and leaves the data window's position out
compress_to_chunk_relative(u, headers) ==
    LET header == headers[u.index.layer + 1]
        expected_byte_size == bytes_per_pixel(header) * area(u.index.pixel_size)
    IN  IF expected_byte_size # Len(u.data)
        THEN [status |-> "Panic", chunk |-> <<>>]
        ELSE [status |-> "Ok",
              chunk |-> chunk_of(u.index, [header EXCEPT !.data_position = <<0, 0>>],
                                 compress_image_section(header.compression, u.data))]

\* lines 814-849: UncompressedBlock::compress_to_chunk
compress_to_chunk(u, headers) ==
    LET header == headers[u.index.layer + 1]
        expected_byte_size == bytes_per_pixel(header) * area(u.index.pixel_size)
    IN  IF expected_byte_size # Len(u.data)
        THEN [status |-> "Panic", chunk |-> <<>>]
        ELSE [status |-> "Ok",
              chunk |-> chunk_of(u.index, header,
                                 compress_image_section(header.compression, u.data))]

\* lines 785-808: UncompressedBlock::decompress_chunk
decompress_chunk(chunk, headers) ==
    IF chunk.layer_index + 1 \notin 1..Len(headers)
    THEN [status |-> "Invalid", block |-> NoBlock]
    ELSE
    LET header == headers[chunk.layer_index + 1]
        tile_data_indices == get_block_data_indices(header, chunk.block)
    IN  IF tile_data_indices.status # "Ok"
        THEN [status |-> tile_data_indices.status, block |-> NoBlock]
        ELSE
        LET absolute_indices == get_absolute_block_indices(header, tile_data_indices.tile)
        IN  IF ~absolute_indices.ok \/ ~validate(absolute_indices, header.data_size)
            THEN [status |-> "Invalid", block |-> NoBlock]
            ELSE IF chunk.block.kind \notin {"Tile", "ScanLine"}
            THEN [status |-> "Unsupported", block |-> NoBlock]
            ELSE
            LET data == decompress_image_section(header, chunk.block.compressed_pixels,
                                                 absolute_indices)
            IN  IF data.status # "Ok"
                THEN [status |-> data.status, block |-> NoBlock]
                ELSE [status |-> "Ok",
                      block |-> [data |-> data.data,
                                 index |-> [layer |-> chunk.layer_index,
                                            pixel_position |-> absolute_indices.position,
                                            level |-> tile_data_indices.tile.level_index,
                                            pixel_size |-> absolute_indices.size]]]

(***************************************************************************)
(* The round trip of a block through compress_to_chunk and                 *)
(* decompress_chunk.                                                       *)
(***************************************************************************)
\* the bytes of a block: one of a few patterns
DataPatterns == {4, 8, 24}
pattern_data(pattern, length) == [k \in 1..length |-> (k \div pattern) % 2]

\* scan line headers, some with a data window away from the origin, and
\* tiled headers with mip levels
ChunkHeaders ==
    {[line_order |-> "Increasing", compression |-> c, chunk_count |-> 2,
      data_position |-> p, data_size |-> <<1, scan_lines_per_block(c) + 1>>,
      blocks |-> "ScanLines", tile_size |-> <<1, 1>>, channels |-> ch] :
        c \in Compressions, p \in {<<0, 0>>, <<3, -2>>, <<-1, 5>>},
        ch \in {<<2>>, <<2, 4>>}}
    \cup
    {[line_order |-> "Increasing", compression |-> c, chunk_count |-> 6,
      data_position |-> p, data_size |-> <<4, 3>>,
      blocks |-> "Tiles", tile_size |-> t, channels |-> <<2>>] :
        c \in Compressions, p \in {<<0, 0>>, <<3, -2>>}, t \in {<<2, 2>>, <<3, 1>>}}

\* the tile coordinates that address a block of a header
TileLocations(header) ==
    IF header.blocks = "Tiles"
    THEN {t \in [tile_index : (0..3) \X (0..3), level_index : {<<0, 0>>, <<1, 1>>, <<2, 2>>}] :
            get_absolute_block_indices(header, t).ok}
    ELSE {scan_line_location(k) : k \in 0..(header.chunk_count - 1)}

\* the block of a header at a location, as uncompressed_image_blocks_ordered
\* and decompress_chunk build its index
block_at(header, layer, tile, pattern) ==
    LET data_indices == get_absolute_block_indices(header, tile)
    IN  [index |-> [layer |-> layer, level |-> tile.level_index,
                    pixel_position |-> data_indices.position,
                    pixel_size |-> data_indices.size],
         data |-> pattern_data(pattern, bytes_per_pixel(header) * area(data_indices.size))]

InitChunk ==
    /\ IdleWrite /\ IdleLines /\ IdleRead /\ IdleHuf /\ IdleCanon /\ IdleBits
    /\ IdleBuffer /\ IdleUnpack /\ IdleBuild
    /\ \E header \in ChunkHeaders, layer \in 0..1 :
        /\ ck_headers = [k \in 1..(layer + 1) |-> header]
        /\ \E tile \in TileLocations(header), pattern \in DataPatterns :
                ck_block = block_at(header, layer, tile, pattern)
    /\ ck_chunk = <<>>
    /\ ck_back = <<>>
    /\ ck_pc = "block"

CompressBlock ==
    /\ ck_pc = "block"
    /\ ck_chunk' = compress_to_chunk(ck_block, ck_headers)
    /\ ck_pc' = "chunk"
    /\ UNCHANGED << ck_headers, ck_block, ck_back >>
    /\ UNCHANGED other_than_chunk

DecompressChunk ==
    /\ ck_pc = "chunk"
    /\ ck_chunk.status = "Ok"
    /\ ck_back' = decompress_chunk(ck_chunk.chunk, ck_headers)
    /\ ck_pc' = "back"
    /\ UNCHANGED << ck_headers, ck_block, ck_chunk >>
    /\ UNCHANGED other_than_chunk

NextChunk == CompressBlock \/ DecompressChunk

SpecChunk == InitChunk /\ [][NextChunk]_vars

\* C7: for every block that is a valid block of its header,
\* compress_to_chunk succeeds and decompress_chunk of its chunk returns a
\* block with the same layer, level, pixel position, pixel size and data.
C7_ChunkRoundTrip ==
    /\ ck_pc = "chunk" => ck_chunk.status = "Ok"
    /\ ck_pc = "back" => ck_back = [status |-> "Ok", block |-> ck_block]

\* a scan line block below the first of a data window away from the origin
\* has made the round trip
C7_WitnessScanLine ==
    /\ ck_pc = "back"
    /\ ck_headers[1].blocks = "ScanLines"
    /\ ck_headers[1].data_position[2] # 0
    /\ ck_headers[1].compression # "Uncompressed"
    /\ ck_block.index.pixel_position[2] > 0
    /\ ck_chunk.chunk.block.compressed_pixels # ck_block.data

\* C28: the chunk that compress_to_chunk makes of a block carries the
\* block's layer index; for a header of scan lines it is a ScanLine block
\* whose y coordinate is the block's pixel position y plus the data
\* window's position y, and for a tiled header it is a Tile block whose tile
\* index is the pixel position divided by the tile size, component by
\* component, and whose level index is the block's level.
C28_ChunkCoordinates ==
    (ck_pc \in {"chunk", "back"} /\ ck_chunk.status = "Ok") =>
        LET header == ck_headers[ck_block.index.layer + 1]
            chunk == ck_chunk.chunk
        IN  /\ chunk.layer_index = ck_block.index.layer
            /\ header.blocks = "ScanLines" =>
                /\ chunk.block.kind = "ScanLine"
                /\ chunk.block.y_coordinate
                        = ck_block.index.pixel_position[2] + header.data_position[2]
            /\ header.blocks = "Tiles" =>
                /\ chunk.block.kind = "Tile"
                /\ chunk.block.tile_index[1] * header.tile_size[1]
                        <= ck_block.index.pixel_position[1]
                /\ ck_block.index.pixel_position[1]
                        < (chunk.block.tile_index[1] + 1) * header.tile_size[1]
                /\ chunk.block.tile_index[2] * header.tile_size[2]
                        <= ck_block.index.pixel_position[2]
                /\ ck_block.index.pixel_position[2]
                        < (chunk.block.tile_index[2] + 1) * header.tile_size[2]
                /\ chunk.block.level_index = ck_block.index.level

\* the chunk of a tile of the second layer away from the corner of its level
C28_Witness ==
    /\ ck_pc = "chunk"
    /\ ck_chunk.status = "Ok"
    /\ ck_block.index.layer = 1
    /\ ck_headers[2].blocks = "Tiles"
    /\ ck_chunk.chunk.block.tile_index[1] > 0
    /\ ck_chunk.chunk.block.tile_index[2] > 0
    /\ ck_block.index.pixel_position # ck_chunk.chunk.block.tile_index


(***************************************************************************)
(* The buffer of a block: lines 514-541 of                                 *)
(* uncompressed_image_blocks_ordered, and the size check of                *)
(* compress_to_chunk.  The buffer is known by its length.                  *)
(***************************************************************************)
\* line 514
max_allocation_size == 1024 * 512

\* Header::max_block_byte_size: the bytes of a whole tile, or of a whole
\* block of scan lines
max_block_byte_size(header) ==
    bytes_per_pixel(header)
        * (IF header.blocks = "Tiles" THEN area(header.tile_size)
           ELSE scan_lines_per_block(header.compression) * header.data_size[1])

\* line 516: vec![0_u8; max_block_size.min(max_allocation_size)]
allocated(header) == Min(max_block_byte_size(header), max_allocation_size)

\* a variant that grows the buffer by the allocation size
resized_by_allocation(length, end, max_block_size) == length + max_allocation_size

\* line 523: block_bytes.resize((end + max_allocation_size).min(max_block_size), 0)
resized(length, end, max_block_size) == Min(end + max_allocation_size, max_block_size)

\* Vec::truncate: no effect when the vector is shorter
truncate(length, to) == Min(length, to)

\* the headers of the blocks built: scan lines and tiles, of a few bytes and
\* of more bytes than the allocation size
BufferHeaders ==
    {[line_order |-> "Increasing", compression |-> c,
      chunk_count |-> (h + scan_lines_per_block(c) - 1) \div scan_lines_per_block(c),
      data_position |-> <<0, 0>>, data_size |-> <<w, h>>,
      blocks |-> "ScanLines", tile_size |-> <<1, 1>>, channels |-> ch] :
        c \in Compressions, w \in {1, 40000, 300000}, h \in {1, 17, 20},
        ch \in {<<2>>, <<2, 4>>}}
    \cup
    {[line_order |-> "Increasing", compression |-> c, chunk_count |-> 4,
      data_position |-> <<0, 0>>, data_size |-> d,
      blocks |-> "Tiles", tile_size |-> t, channels |-> ch] :
        c \in Compressions, d \in {<<4, 3>>, <<1000, 3>>},
        t \in {<<2, 2>>, <<600, 600>>}, ch \in {<<2>>, <<2, 4>>}}

\* lines 506-517: the block indices, the buffer and the count of a block
InitBuffer ==
    /\ IdleWrite /\ IdleLines /\ IdleChunk /\ IdleRead /\ IdleHuf /\ IdleCanon /\ IdleBits
    /\ IdleUnpack /\ IdleBuild
    /\ \E header \in BufferHeaders : \E tile \in TileLocations(header) :
        LET data_indices == get_absolute_block_indices(header, tile)
            block_indices == [layer |-> 0, level |-> tile.level_index,
                              pixel_position |-> data_indices.position,
                              pixel_size |-> data_indices.size]
        IN  bb = [header |-> header,
                  index |-> block_indices,
                  iter |-> line_iter_new(block_indices, header.channels),
                  byte_range |-> <<0, 0>>,
                  block_bytes |-> allocated(header),
                  written |-> 0,
                  sizes |-> << allocated(header) >>,
                  pc |-> "lines"]

\* lines 519-533: one turn of the loop over line_indices; the slice of line
\* 527 panics when the buffer is shorter than the end of the range
LineOfBlock ==
    /\ bb.pc = "lines"
    /\ line_iter_next(bb.iter).some
    /\ LET n == line_iter_next(bb.iter)
           end == n.item.bytes[2]
           length == IF bb.block_bytes < end
                     THEN resized(bb.block_bytes, end, max_block_byte_size(bb.header))
                     ELSE bb.block_bytes
       IN  bb' = [bb EXCEPT
                    !.iter = n.iter,
                    !.byte_range = n.item.bytes,
                    !.block_bytes = length,
                    !.sizes = IF length = bb.block_bytes THEN bb.sizes
                              ELSE Append(bb.sizes, length),
                    !.pc = IF length < end THEN "panic" ELSE bb.pc,
                    !.written = IF length < end THEN bb.written ELSE end]
    /\ UNCHANGED other_than_buffer

\* line 535: block_bytes.truncate(written_block_byte_count)
TruncateBlock ==
    /\ bb.pc = "lines"
    /\ ~line_iter_next(bb.iter).some
    /\ bb' = [bb EXCEPT
                !.block_bytes = truncate(bb.block_bytes, bb.written),
                !.sizes = Append(bb.sizes, truncate(bb.block_bytes, bb.written)),
                !.pc = "block"]
    /\ UNCHANGED other_than_buffer

\* lines 820-823: the size check of compress_to_chunk
CheckBlockSize ==
    /\ bb.pc = "block"
    /\ LET expected_byte_size == bytes_per_pixel(bb.header) * area(bb.index.pixel_size)
       IN  bb' = [bb EXCEPT
                    !.pc = IF expected_byte_size # bb.block_bytes THEN "panic" ELSE "chunk"]
    /\ UNCHANGED other_than_buffer

NextBuffer == LineOfBlock \/ TruncateBlock \/ CheckBlockSize

SpecBuffer == InitBuffer /\ [][NextBuffer]_vars

\* the lengths of the lines of the block, added up
line_lengths(index, channels) ==
    LET lines == line_indices(index, channels)
    IN  SumSeq([k \in 1..Len(lines) |-> lines[k].bytes[2] - lines[k].bytes[1]])

\* C27: the buffer of a block starts with min(max_block_byte_size, 512 KiB)
\* bytes, is at least as long as the end of the byte range handed to
\* get_line, and is never longer than max_block_byte_size; after the
\* truncation its length is the sum of the lengths of the block's lines,
\* which is bytes_per_pixel * area of the block, and the size check of
\* compress_to_chunk does not panic.
C27_BufferHoldsEveryLine ==
    /\ bb.pc # "panic"
    /\ bb.sizes[1] = Min(max_block_byte_size(bb.header), 512 * 1024)
    /\ \A k \in 1..Len(bb.sizes) : bb.sizes[k] <= max_block_byte_size(bb.header)
    /\ bb.pc = "lines" => bb.block_bytes >= bb.byte_range[2]
    /\ bb.pc \in {"block", "chunk"} =>
        /\ bb.block_bytes = line_lengths(bb.index, bb.header.channels)
        /\ bb.block_bytes = bytes_per_pixel(bb.header) * area(bb.index.pixel_size)

\* the buffer of the last block of an image, a block shorter than a whole
\* one, has grown twice, was truncated and has passed the size check
C27_Witness ==
    /\ bb.pc = "chunk"
    /\ Len(bb.sizes) >= 4
    /\ bb.sizes[1] = max_allocation_size
    /\ bb.block_bytes < max_block_byte_size(bb.header)
    /\ bb.block_bytes > max_allocation_size


(***************************************************************************)
(* The read pipeline: for_decompressed_lines_in_chunks.                    *)
(***************************************************************************)
\* the most tiles of a layer of a file being read
MaxTiles == 2

\* a tiled header of tiles one pixel wide and two high, the last tile one high
ReadHeader(compression, tiles, channels) ==
    [line_order |-> "Increasing", compression |-> compression, chunk_count |-> tiles,
     data_position |-> <<0, 0>>, data_size |-> <<1, 2 * tiles - 1>>,
     blocks |-> "Tiles", tile_size |-> <<1, 2>>, channels |-> channels]

ReadHeaders ==
    {ReadHeader(c, n, ch) : c \in Compressions, n \in 1..MaxTiles, ch \in {<<2>>, <<2, 4>>}}

ReadMetaDatas ==
    UNION {[1..n -> ReadHeaders] : n \in HeaderCounts}

\* the bytes of the blocks of a file
read_data(length) == [k \in 1..length |-> k % 5]

\* the chunks of a layer, as compress_to_chunk has made them
layer_chunks(headers, layer) ==
    [j \in 1..headers[layer + 1].chunk_count |->
        LET tile == [tile_index |-> <<0, j - 1>>, level_index |-> <<0, 0>>]
            data_indices == get_absolute_block_indices(headers[layer + 1], tile)
            length == bytes_per_pixel(headers[layer + 1]) * area(data_indices.size)
            block == [index |-> [layer |-> layer, level |-> tile.level_index,
                                 pixel_position |-> data_indices.position,
                                 pixel_size |-> data_indices.size],
                      data |-> read_data(length)]
        IN  compress_to_chunk(block, headers).chunk]

\* the chunks of a file, layer after layer
file_chunks(headers) ==
    Flatten([k \in 1..Len(headers) |-> layer_chunks(headers, k - 1)])

\* a chunk that names a layer the file does not have
corrupted(chunk, headers) == [chunk EXCEPT !.layer_index = Len(headers)]

\* the bytes a chunk takes in the file: its head and its compressed pixels
chunk_size(chunk) == Len(chunk_bytes(chunk))

\* the chunks of a file with the layer and the block each was made from
file_entries(headers) ==
    Flatten([k \in 1..Len(headers) |->
        [j \in 1..headers[k].chunk_count |->
            [layer |-> k - 1, block_index |-> j - 1,
             chunk |-> layer_chunks(headers, k - 1)[j]]]])

\* where the chunks of a file begin: behind the meta data and the offset tables
chunks_start(headers) ==
    Len(meta_data_bytes(headers)) + U64Bytes * offset_table_size(headers)

\* the file that holds the entries in the given order, each at its byte offset
file_of(headers, entries) ==
    [k \in 1..Len(entries) |->
        [offset |-> chunks_start(headers)
                        + SumSeq([i \in 1..(k - 1) |-> chunk_size(entries[i].chunk)]),
         layer |-> entries[k].layer, block_index |-> entries[k].block_index,
         chunk |-> entries[k].chunk]]

\* a deep data block in the place of a chunk's block
deep_data(chunk) == [chunk EXCEPT !.block.kind = "Deep"]

\* a chunk whose tile lies below the data window of its layer
outside_data_window(chunk, headers) ==
    [chunk EXCEPT !.block.tile_index = << 0, headers[chunk.layer_index + 1].chunk_count >>]

\* what a changed byte of a file makes of a chunk
Mutations == {"layer index", "deep data", "data window"}

mutated(chunk, headers, mutation) ==
    CASE mutation = "layer index" -> corrupted(chunk, headers)
      [] mutation = "deep data" -> deep_data(chunk)
      [] mutation = "data window" -> outside_data_window(chunk, headers)

\* the files drawn: the chunks in increasing or in decreasing order, and at
\* most one chunk that a mutation has changed
ReadFiles(headers) ==
    {[k \in 1..Len(file_entries(headers)) |->
        LET file == file_of(headers, IF reversed THEN Reverse(file_entries(headers))
                                     ELSE file_entries(headers))
        IN  IF k = corrupt
            THEN [file[k] EXCEPT !.chunk = mutated(file[k].chunk, headers, mutation)]
            ELSE file[k]]
     : reversed \in BOOLEAN, corrupt \in 0..Len(file_entries(headers)),
       mutation \in Mutations}

\* MetaData::read_offset_tables: for each header the offsets of its blocks
\* in increasing-y order
read_offset_tables(file, headers) ==
    [h \in 1..Len(headers) |->
        [b \in 1..headers[h].chunk_count |->
            LET k == CHOOSE k \in 1..Len(file) :
                        file[k].layer = h - 1 /\ file[k].block_index = b - 1
            IN  file[k].offset]]

\* lines 484-485: skip_to(offset) and Chunk::read
read_chunk(file, offset) ==
    LET k == CHOOSE k \in 1..Len(file) : file[k].offset = offset
    IN  file[k].chunk

\* the filter closures drawn, by what they accept
Filters == {"all", "none", "layer 1", "first tile"}

\* the filter closure applied to a header and a block of it
filter(name, header_index, block_index) ==
    CASE name = "all" -> TRUE
      [] name = "none" -> FALSE
      [] name = "layer 1" -> header_index = 1
      [] name = "first tile" -> block_index = 0

\* lines 470-476: the (header, block) pairs in the order of the two loops
filter_order(headers) ==
    Flatten([h \in 1..Len(headers) |->
        [b \in 1..Len(blocks_increasing_y_order(headers[h])) |-> << h - 1, b - 1 >>]])

\* lines 470-476: the offsets of the blocks the filter accepts, as pushed
RECURSIVE filtered_offsets(_, _, _)
filtered_offsets(name, offset_tables_read, order) ==
    IF order = <<>> THEN <<>>
    ELSE LET header_index == Head(order)[1]
             block_index == Head(order)[2]
             rest == filtered_offsets(name, offset_tables_read, Tail(order))
         IN  IF filter(name, header_index, block_index)
             THEN << offset_tables_read[header_index + 1][block_index + 1] >> \o rest
             ELSE rest

\* the offsets left in the order in which they were pushed
sort_skipped(s) == s

\* line 478: offsets.sort()
RECURSIVE sort(_)
sort(s) ==
    IF s = <<>> THEN <<>>
    ELSE LET k == CHOOSE k \in 1..Len(s) : \A i \in 1..Len(s) : s[k] <= s[i]
         IN  << s[k] >> \o sort(SubSeq(s, 1, k - 1) \o SubSeq(s, k + 1, Len(s)))

\* a variant that takes the parallel loop whenever the option asks for it
parallel_read_whenever_asked(headers, parallel_option) == parallel_option

\* do not use parallel stuff for uncompressed images
parallel_read(headers, parallel_option) == parallel_option /\ has_compression(headers)

\* the results a callback of the caller may return
CallbackResults == {"Ok", "Aborted"}

\* a callback that never returns an error
is_err_never(result) == FALSE

\* the ? operator: the result is an error and the function returns it
is_err(result) == result # "Ok"

\* the read function has been called and nothing has happened yet
StartOfRead ==
    /\ IdleWrite /\ IdleLines /\ IdleChunk /\ IdleHuf /\ IdleCanon /\ IdleBits
    /\ IdleBuffer /\ IdleUnpack /\ IdleBuild
    /\ rd_meta \in ReadMetaDatas
    /\ parallel_decompression \in BOOLEAN
    /\ rd_file \in ReadFiles(rd_meta)
    /\ filter_calls = <<>>
    /\ decompressing = {}
    /\ rd_channel = <<>>
    /\ rd_block = None
    /\ rd_iter = None
    /\ rd_processed = 0
    /\ delivered = <<>>
    /\ inserted_lines = <<>>
    /\ rd_visited = <<>>
    /\ rd_calls = <<>>
    /\ rd_executed = {}
    /\ rd_return = NotReturned

\* lines 428-447: read_all_lines_from_buffered reads every chunk of the file
\* in file order
InitRead ==
    /\ StartOfRead
    /\ rd_filter = "unfiltered"
    /\ offsets = [k \in 1..Len(rd_file) |-> rd_file[k].offset]
    /\ total_chunk_count = offset_table_size(rd_meta)
    /\ rpc = "start"

\* lines 337-346: read_filtered_lines_from_buffered before it has looked at
\* the offset tables
InitFilteredRead ==
    /\ StartOfRead
    /\ rd_filter \in Filters
    /\ offsets = <<>>
    /\ total_chunk_count = 0
    /\ rpc = "filter"

\* lines 455-489: read_filtered_chunks_from_buffered asks the filter for
\* each block, sorts the offsets of the accepted blocks and counts them
ReadFilteredChunks ==
    /\ rpc = "filter"
    /\ LET offset_tables_read == read_offset_tables(rd_file, rd_meta)
           pushed == filtered_offsets(rd_filter, offset_tables_read, filter_order(rd_meta))
       IN  /\ filter_calls' = filter_order(rd_meta)
           /\ offsets' = sort(pushed)
           /\ total_chunk_count' = Len(pushed)
    /\ rpc' = "start"
    /\ rd_executed' = rd_executed \cup {<< "filter", "coordinator" >>}
    /\ UNCHANGED << rd_meta, parallel_decompression, rd_file, rd_filter, decompressing,
                    rd_channel, rd_block, rd_iter, rd_processed, delivered,
                    inserted_lines, rd_visited, rd_calls, rd_return >>
    /\ UNCHANGED other_than_read

\* lines 377-382: the choice between the parallel and the sequential loop
BeginRead ==
    /\ rpc = "start"
    /\ rpc' = IF parallel_read(rd_meta, parallel_decompression) THEN "pool" ELSE "sequential"
    /\ UNCHANGED << rd_meta, parallel_decompression, rd_file, rd_filter, filter_calls,
                    offsets, total_chunk_count, decompressing, rd_channel, rd_block,
                    rd_iter, rd_processed, delivered, inserted_lines, rd_visited,
                    rd_calls, rd_executed, rd_return >>
    /\ UNCHANGED other_than_read

\* the read function returns an error
ReadReturn(error) ==
    /\ rpc' = "error"
    /\ rd_return' = error

\* lines 392, 408: on_read_progressed is called with the fraction of the
\* chunks processed before this one
on_progress_call(result) ==
    [callback |-> "on_progress", result |-> result,
     processed |-> rd_processed, total |-> total_chunk_count,
     lines |-> Len(inserted_lines)]

\* lines 395-400, 411-414: the header of the block's layer and the block's
\* line_indices
take_up(block) ==
    IF block.index.layer + 1 \notin 1..Len(rd_meta)
    THEN /\ ReadReturn("Invalid")
         /\ UNCHANGED << rd_block, rd_iter, delivered >>
    ELSE LET iter == line_iter_new(block.index, rd_meta[block.index.layer + 1].channels)
         IN  /\ delivered' = Append(delivered, block.index)
             /\ rd_block' = IF line_iter_next(iter).some THEN block ELSE None
             /\ rd_iter' = IF line_iter_next(iter).some THEN iter ELSE None
             /\ UNCHANGED << rpc, rd_return >>

\* lines 407-411: the sequential loop reads the next chunk, reports the
\* progress, counts the chunk and decompresses it
SequentialChunk ==
    /\ rpc = "sequential"
    /\ rd_block = None
    /\ offsets # <<>>
    /\ offsets' = Tail(offsets)
    /\ rd_visited' = Append(rd_visited, Head(offsets))
    /\ rd_executed' = rd_executed \cup {<< "Chunk::read", "coordinator" >>,
                                        << "on_progress", "coordinator" >>,
                                        << "decompress_chunk", "coordinator" >>}
    /\ \E result \in CallbackResults :
        /\ rd_calls' = Append(rd_calls, on_progress_call(result))
        /\ IF is_err(result)
           THEN /\ ReadReturn(result)
                /\ UNCHANGED << rd_processed, rd_block, rd_iter, delivered >>
           ELSE /\ rd_processed' = rd_processed + 1
                /\ LET decompressed == decompress_chunk(read_chunk(rd_file, Head(offsets)),
                                                        rd_meta)
                   IN  IF decompressed.status # "Ok"
                       THEN /\ ReadReturn(decompressed.status)
                            /\ UNCHANGED << rd_block, rd_iter, delivered >>
                       ELSE take_up(decompressed.block)
    /\ UNCHANGED << rd_meta, parallel_decompression, rd_file, rd_filter, filter_calls,
                    total_chunk_count, decompressing, rd_channel, inserted_lines >>
    /\ UNCHANGED other_than_read

\* lines 399-401, 412-414: one line of the block goes to for_each, which may
\* return an error
InsertLine ==
    /\ rpc \in {"sequential", "receive"}
    /\ rd_block # None
    /\ rd_executed' = rd_executed \cup {<< "insert", "coordinator" >>}
    /\ LET n == line_iter_next(rd_iter)
           line_slice == [location |-> n.item.line,
                          value |-> SubSeq(rd_block.data, n.item.bytes[1] + 1,
                                           n.item.bytes[2])]
       IN  /\ inserted_lines' = Append(inserted_lines, line_slice)
           /\ \E result \in CallbackResults :
                /\ rd_calls' = Append(rd_calls,
                        [callback |-> "insert", result |-> result,
                         processed |-> rd_processed, total |-> total_chunk_count,
                         lines |-> Len(inserted_lines)])
                /\ IF is_err(result)
                   THEN /\ ReadReturn(result)
                        /\ UNCHANGED << rd_block, rd_iter >>
                   ELSE /\ rd_block' = IF line_iter_next(n.iter).some THEN rd_block ELSE None
                        /\ rd_iter' = IF line_iter_next(n.iter).some THEN n.iter ELSE None
                        /\ UNCHANGED << rpc, rd_return >>
    /\ UNCHANGED << rd_meta, parallel_decompression, rd_file, rd_filter, filter_calls,
                    offsets, total_chunk_count, decompressing, rd_channel, rd_processed,
                    delivered, rd_visited >>
    /\ UNCHANGED other_than_read

\* line 418: the chunks are used up
SequentialReadEnd ==
    /\ rpc = "sequential"
    /\ rd_block = None
    /\ offsets = <<>>
    /\ rpc' = "done"
    /\ rd_return' = "Ok"
    /\ UNCHANGED << rd_meta, parallel_decompression, rd_file, rd_filter, filter_calls,
                    offsets, total_chunk_count, decompressing, rd_channel, rd_block,
                    rd_iter, rd_processed, delivered, inserted_lines, rd_visited,
                    rd_calls, rd_executed >>
    /\ UNCHANGED other_than_read

\* line 385: par_bridge lets a free thread of the pool pull the next chunk
\* from the chunk iterator, which reads it from the file
PoolTake ==
    /\ rpc = "pool"
    /\ offsets # <<>>
    /\ Cardinality(decompressing) < NumWorkers
    /\ decompressing' = decompressing \cup {read_chunk(rd_file, Head(offsets))}
    /\ offsets' = Tail(offsets)
    /\ rd_visited' = Append(rd_visited, Head(offsets))
    /\ rd_executed' = rd_executed \cup {<< "Chunk::read", par_bridge_thread >>}
    /\ UNCHANGED << rd_meta, parallel_decompression, rd_file, rd_filter, filter_calls,
                    total_chunk_count, rpc, rd_channel, rd_block, rd_iter, rd_processed,
                    delivered, inserted_lines, rd_calls, rd_return >>
    /\ UNCHANGED other_than_read

\* lines 386-389: a thread decompresses its chunk and sends the block; an
\* error ends try_for_each_with and the function
PoolSend ==
    /\ rpc = "pool"
    /\ rd_executed' = rd_executed \cup {<< "decompress_chunk", "worker" >>}
    /\ \E chunk \in decompressing :
        LET result == decompress_chunk(chunk, rd_meta)
        IN  /\ decompressing' = decompressing \ {chunk}
            /\ IF result.status = "Ok"
               THEN /\ rd_channel' = Append(rd_channel, result.block)
                    /\ UNCHANGED << rpc, rd_return >>
               ELSE /\ ReadReturn(result.status)
                    /\ UNCHANGED rd_channel
    /\ UNCHANGED << rd_meta, parallel_decompression, rd_file, rd_filter, filter_calls,
                    offsets, total_chunk_count, rd_block, rd_iter, rd_processed,
                    delivered, inserted_lines, rd_visited, rd_calls >>
    /\ UNCHANGED other_than_read

\* line 389: try_for_each_with has returned Ok and has dropped the sender
PoolFinished ==
    /\ rpc = "pool"
    /\ offsets = <<>>
    /\ decompressing = {}
    /\ rpc' = "receive"
    /\ UNCHANGED << rd_meta, parallel_decompression, rd_file, rd_filter, filter_calls,
                    offsets, total_chunk_count, decompressing, rd_channel, rd_block,
                    rd_iter, rd_processed, delivered, inserted_lines, rd_visited,
                    rd_calls, rd_executed, rd_return >>
    /\ UNCHANGED other_than_read

\* lines 391-396: the coordinator receives the next block, reports the
\* progress and counts the chunk
ReceiveBlock ==
    /\ rpc = "receive"
    /\ rd_block = None
    /\ rd_channel # <<>>
    /\ rd_channel' = Tail(rd_channel)
    /\ rd_executed' = rd_executed \cup {<< "on_progress", "coordinator" >>}
    /\ \E result \in CallbackResults :
        /\ rd_calls' = Append(rd_calls, on_progress_call(result))
        /\ IF is_err(result)
           THEN /\ ReadReturn(result)
                /\ UNCHANGED << rd_processed, rd_block, rd_iter, delivered >>
           ELSE /\ rd_processed' = rd_processed + 1
                /\ take_up(Head(rd_channel))
    /\ UNCHANGED << rd_meta, parallel_decompression, rd_file, rd_filter, filter_calls,
                    offsets, total_chunk_count, decompressing, inserted_lines,
                    rd_visited >>
    /\ UNCHANGED other_than_read

\* line 403: the channel is empty and closed
ReceiveReadEnd ==
    /\ rpc = "receive"
    /\ rd_block = None
    /\ rd_channel = <<>>
    /\ rpc' = "done"
    /\ rd_return' = "Ok"
    /\ UNCHANGED << rd_meta, parallel_decompression, rd_file, rd_filter, filter_calls,
                    offsets, total_chunk_count, decompressing, rd_channel, rd_block,
                    rd_iter, rd_processed, delivered, inserted_lines, rd_visited,
                    rd_calls, rd_executed >>
    /\ UNCHANGED other_than_read

NextRead ==
    \/ BeginRead
    \/ SequentialChunk
    \/ InsertLine
    \/ SequentialReadEnd
    \/ PoolTake
    \/ PoolSend
    \/ PoolFinished
    \/ ReceiveBlock
    \/ ReceiveReadEnd

SpecRead == InitRead /\ [][NextRead]_vars

NextFilteredRead ==
    \/ ReadFilteredChunks
    \/ NextRead

SpecFilteredRead == InitFilteredRead /\ [][NextFilteredRead]_vars

\* the locations of the lines of a block in canonical interleave order: y
\* ascending from the block's top row, for each y the channels in header order
canonical_lines(index) ==
    LET n == Len(rd_meta[index.layer + 1].channels)
    IN  [k \in 1..(index.pixel_size[2] * n) |->
            [channel |-> (k - 1) % n, layer |-> index.layer, level |-> index.level,
             position |-> << index.pixel_position[1],
                             index.pixel_position[2] + (k - 1) \div n >>,
             sample_count |-> index.pixel_size[1]]]

\* the locations of all lines of the blocks taken up so far, block after block
lines_of_delivered(count) ==
    Flatten([b \in 1..count |-> canonical_lines(delivered[b])])

\* C5: in sequential and in parallel mode the lines handed to the insert
\* callback are the lines of the blocks taken up so far, block after block
\* and each block in canonical interleave order; a block's lines begin only
\* when all lines of the block before it have been handed over.
C5_LinesInCanonicalOrderPerBlock ==
    LET expected == lines_of_delivered(Len(delivered))
        count == Len(inserted_lines)
    IN  /\ count <= Len(expected)
        /\ \A k \in 1..count : inserted_lines[k].location = expected[k]
        /\ Len(delivered) > 0 =>
                count >= Len(lines_of_delivered(Len(delivered) - 1))

\* in parallel mode a second block, below the top of its layer and of two
\* channels, has handed over the line of its second channel after all four
\* lines of the block before it
C5_Witness ==
    /\ rpc = "receive"
    /\ Len(delivered) = 2
    /\ delivered[1].pixel_size[2] = 2
    /\ delivered[2].pixel_position[2] > 0
    /\ Len(inserted_lines) = 6
    /\ inserted_lines[6].location.channel = 1
    /\ inserted_lines[6].location.position[2] = delivered[2].pixel_position[2]

(***************************************************************************)
(* Claims about the callbacks of a read, checked under SpecRead.           *)
(***************************************************************************)
\* a callback has returned an error in the call numbered k
callback_failed_at(k) == rd_calls[k].result # "Ok"

\* C12: when on_progress or insert returns an error, the read function
\* returns that error and calls neither callback again, in sequential and
\* in parallel mode: only the last call of the callbacks can have returned
\* an error, and then the function has returned with that error.
C12_CallbackErrorEndsRead ==
    /\ \A k \in 1..(Len(rd_calls) - 1) : ~callback_failed_at(k)
    /\ (Len(rd_calls) > 0 /\ callback_failed_at(Len(rd_calls)))
        => /\ rpc = "error"
           /\ rd_return = rd_calls[Len(rd_calls)].result

\* in parallel mode insert has returned Aborted after earlier calls of both
\* callbacks, while a received block waits in the channel
C12_Witness ==
    /\ parallel_read(rd_meta, parallel_decompression)
    /\ rd_return = "Aborted"
    /\ Len(rd_calls) >= 3
    /\ rd_calls[Len(rd_calls)].callback = "insert"
    /\ rd_channel # <<>>


(***************************************************************************)
(* Claims about a filtered read, checked under SpecFilteredRead.           *)
(***************************************************************************)
\* the (header, tile) pairs of the file
tiles_of_file ==
    UNION {{<< h - 1, b - 1 >> : b \in 1..rd_meta[h].chunk_count} : h \in 1..Len(rd_meta)}

\* the tiles the filter of the read accepts
accepted_tiles == {t \in tiles_of_file : filter(rd_filter, t[1], t[2])}

\* the offset table entries of the accepted tiles
accepted_offsets ==
    {read_offset_tables(rd_file, rd_meta)[t[1] + 1][t[2] + 1] : t \in accepted_tiles}

\* the pair p comes before the pair q: by header index, then by y
pair_before(p, q) == p[1] < q[1] \/ (p[1] = q[1] /\ p[2] < q[2])

\* the tile a line belongs to
tile_of_line(location) ==
    << location.layer,
       location.position[2] \div rd_meta[location.layer + 1].tile_size[2] >>

\* C13: in a filtered read the filter is asked exactly once for each
\* (header, tile) pair, headers in index order and tiles in increasing-y
\* order; the chunks read are those at the offset table entries of the
\* accepted tiles, in ascending offset order, and all of them once the read
\* has returned Ok; no line of a rejected tile is handed to insert; the
\* chunk count reported is the number of accepted tiles.
C13_FilteredRead ==
    rpc # "filter" =>
        /\ Len(filter_calls) = Cardinality(tiles_of_file)
        /\ \A k \in 1..Len(filter_calls) : filter_calls[k] \in tiles_of_file
        /\ \A k \in 1..(Len(filter_calls) - 1) :
                pair_before(filter_calls[k], filter_calls[k + 1])
        /\ \A k \in 1..Len(rd_visited) : rd_visited[k] \in accepted_offsets
        /\ \A k \in 1..(Len(rd_visited) - 1) : rd_visited[k] < rd_visited[k + 1]
        /\ rpc = "done" => {rd_visited[k] : k \in 1..Len(rd_visited)} = accepted_offsets
        /\ \A k \in 1..Len(inserted_lines) :
                tile_of_line(inserted_lines[k].location) \in accepted_tiles
        /\ total_chunk_count = Cardinality(accepted_tiles)

\* a file of two layers whose chunks lie in decreasing order has been read
\* with a filter that accepts layer 1 only: two chunks were read and their
\* lines handed to insert
C13_Witness ==
    /\ rd_filter = "layer 1"
    /\ Len(rd_meta) = 2
    /\ rd_file[1].block_index = 1
    /\ rpc = "done"
    /\ Len(rd_visited) = 2
    /\ inserted_lines # <<>>


(***************************************************************************)
(* Claims about the chunks of a changed file, checked under SpecRead.      *)
(***************************************************************************)
\* the chunks the read has taken from the file
visited_chunks == {read_chunk(rd_file, rd_visited[k]) : k \in 1..Len(rd_visited)}

\* the read function has returned
read_returned == rpc \in {"done", "error"}

\* no callback of the caller has returned an error
callbacks_ok == \A k \in 1..Len(rd_calls) : rd_calls[k].result = "Ok"

\* line 415: the byte range of the next line lies within the block's data
line_within_data ==
    rd_block # None => line_iter_next(rd_iter).item.bytes[2] <= Len(rd_block.data)

\* C23: whatever chunks the file holds (one that names a layer the file
\* does not have, a deep data block, a tile outside the data window), the
\* read returns Ok or an error value and does not panic; when no callback
\* has failed, a chunk with an unknown layer index makes it return Invalid
\* and a deep data block makes it return Unsupported.
C23_ChangedChunksEndInErrors ==
    /\ rd_return \in {NotReturned, "Ok", "Aborted", "Invalid", "Unsupported"}
    /\ line_within_data
    /\ read_returned => rd_return # NotReturned
    /\ (read_returned /\ callbacks_ok) =>
        /\ (\E chunk \in visited_chunks : chunk.layer_index >= Len(rd_meta))
                => rd_return = "Invalid"
        /\ (\E chunk \in visited_chunks : chunk.block.kind = "Deep")
                => rd_return = "Unsupported"
        /\ rd_return = "Ok"
                => \A chunk \in visited_chunks : decompress_chunk(chunk, rd_meta).status = "Ok"

\* a sequential read has inserted the lines of a block and has then come to
\* a deep data block
C23_Witness ==
    /\ rpc = "error"
    /\ rd_return = "Unsupported"
    /\ callbacks_ok
    /\ inserted_lines # <<>>
    /\ \E chunk \in visited_chunks : chunk.block.kind = "Deep"


(***************************************************************************)
(* The two pipelines side by side: a run is a read of a file or a write of *)
(* an image.  Claims about both are checked under SpecPipelines; a formula *)
(* tells the run by the meta data, which the other pipeline leaves Idle.   *)
(***************************************************************************)
\* the run is a read
reading == rd_meta # Idle

\* the run is a write
writing == meta_data # Idle

InitPipelines == InitRead \/ InitWriteFaults

NextPipelines ==
    \/ reading /\ NextRead
    \/ writing /\ NextWrite

SpecPipelines == InitPipelines /\ [][NextPipelines]_vars

\* a capacity a bounded channel could have: one slot for each thread
ChannelCapacity == NumWorkers

\* C14: in parallel mode the blocks (read) or chunks (write) that the
\* threads of the pool have sent and the coordinator has not yet received
\* are never more than a fixed capacity.
C14_ChannelBounded ==
    /\ writing => Len(channel) <= ChannelCapacity
    /\ reading => Len(rd_channel) <= ChannelCapacity


\* the operations that run on the threads of the pool in parallel mode
pool_operations == {"get_line", "compress_to_chunk", "Chunk::read", "decompress_chunk"}

\* each operation of the log ran on the thread the set names for it
threads_are(log, on_pool) ==
    \A e \in log : e[2] = IF e[1] \in on_pool THEN "worker" ELSE "coordinator"

\* C15 as stated: in parallel mode the threads of the pool execute only
\* compress_to_chunk and decompress_chunk; the chunk reads, the get_line
\* calls, the insert calls, the chunk writes and the offset table updates
\* are executed by the calling thread.
C15_WorkersOnlyCompress ==
    /\ (writing /\ parallel(meta_data, parallel_compression))
        => threads_are(executed, {"compress_to_chunk"})
    /\ (reading /\ parallel_read(rd_meta, parallel_decompression))
        => threads_are(rd_executed, {"decompress_chunk"})

\* C15 amended: in parallel mode the insert and on_progress calls, the chunk
\* writes and the offset table updates are executed by the calling thread;
\* the threads of the pool execute compress_to_chunk and decompress_chunk
\* and also pull the items of the source iterator, so the get_line calls of
\* a write and the chunk reads of a read run on threads of the pool.
C15_WorkersAlsoPullTheSource ==
    /\ (writing /\ parallel(meta_data, parallel_compression))
        => threads_are(executed, pool_operations)
    /\ (reading /\ parallel_read(rd_meta, parallel_decompression))
        => threads_are(rd_executed, pool_operations)

\* a parallel write has returned Ok: get_line ran on the pool, write_chunk
\* and the offset tables on the calling thread
C15_Witness ==
    /\ writing
    /\ parallel(meta_data, parallel_compression)
    /\ write_return = "Ok"
    /\ << "get_line", "worker" >> \in executed
    /\ << "write_chunk", "coordinator" >> \in executed
    /\ << "offset_tables", "coordinator" >> \in executed


\* the option asks for the pool and a header has a compression other than
\* Uncompressed
asked_and_compressed(headers, option) ==
    option /\ \E k \in 1..Len(headers) : headers[k].compression # "Uncompressed"

\* an operation of the log ran on a thread of the pool
ran_on_pool(log) == \E e \in log : e[2] = "worker"

\* the block indices of the chunks the read has taken from the file, in the
\* order in which it took them
visited_indices ==
    [k \in 1..Len(rd_visited) |->
        decompress_chunk(read_chunk(rd_file, rd_visited[k]), rd_meta).block.index]

\* C25: the parallel path is taken if and only if the parallel option is
\* set and some header has a compression other than Uncompressed; in every
\* other case the pipeline runs on the calling thread alone, and a read
\* decompresses and delivers the blocks one at a time in the order in which
\* the chunk source yields them.
C25_ParallelOnlyWhenAskedAndCompressed ==
    /\ reading =>
        IF asked_and_compressed(rd_meta, parallel_decompression)
        THEN /\ rpc # "sequential"
             /\ << "decompress_chunk", "coordinator" >> \notin rd_executed
             /\ << "Chunk::read", "coordinator" >> \notin rd_executed
        ELSE /\ rpc \notin {"pool", "receive"}
             /\ ~ran_on_pool(rd_executed)
             /\ decompressing = {}
             /\ rd_channel = <<>>
             /\ Len(delivered) <= Len(rd_visited)
             /\ Len(rd_visited) <= Len(delivered) + 1
             /\ delivered = SubSeq(visited_indices, 1, Len(delivered))
             /\ rd_return = "Ok" => delivered = visited_indices
    /\ writing =>
        IF asked_and_compressed(meta_data, parallel_compression)
        THEN /\ << "compress_to_chunk", "coordinator" >> \notin executed
             /\ << "get_line", "coordinator" >> \notin executed
        ELSE /\ ~ran_on_pool(executed)
             /\ compressing = {}
             /\ channel = <<>>

\* a read that asked for the pool, of a file of Uncompressed headers, has
\* delivered its blocks and returned
C25_Witness ==
    /\ reading
    /\ parallel_decompression
    /\ ~asked_and_compressed(rd_meta, parallel_decompression)
    /\ rd_return = "Ok"
    /\ Len(delivered) >= 3
    /\ << "decompress_chunk", "coordinator" >> \in rd_executed


\* the elements of a sequence
Range(s) == {s[k] : k \in 1..Len(s)}

\* a parallel write in which compress_to_chunk has returned its error: the
\* block of the fault is a block of the image and no longer waits in the
\* iterator or on a thread
compression_failed ==
    /\ writing
    /\ parallel(meta_data, parallel_compression)
    /\ wpc # "start"
    /\ fault.kind = "compress"
    /\ fault.layer < Len(meta_data)
    /\ fault.chunk_index < meta_data[fault.layer + 1].chunk_count
    /\ \A block \in Range(blocks) \cup compressing : ~compress_failed(block)

\* the chunks of the file being read that decompress_chunk has refused
chunks_refused ==
    {k \in 1..Len(rd_file) :
        /\ decompress_chunk(rd_file[k].chunk, rd_meta).status # "Ok"
        /\ rd_file[k].offset \in Range(rd_visited)
        /\ rd_file[k].chunk \notin decompressing}

\* C16: in parallel mode an error of the compression or decompression of a
\* chunk makes the function return that error, and no result of any thread
\* is handed to write_chunk (write) or to insert (read): the receiving loop
\* never starts.
C16_WorkerErrorEndsPipeline ==
    /\ compression_failed
        => /\ wpc = "error"
           /\ write_return = "Invalid"
           /\ write_calls = <<>>
           /\ progress = <<>>
    /\ (reading /\ parallel_read(rd_meta, parallel_decompression))
        => \A k \in chunks_refused :
            /\ rpc = "error"
            /\ rd_return = decompress_chunk(rd_file[k].chunk, rd_meta).status
            /\ inserted_lines = <<>>
            /\ rd_calls = <<>>

\* a thread's compression has failed while the chunk of another thread lies
\* in the channel
C16_Witness ==
    /\ compression_failed
    /\ write_return = "Invalid"
    /\ channel # <<>>


\* the progress reports of the run, in the order of the calls
progress_reports ==
    IF writing THEN progress
    ELSE SelectSeq(rd_calls, LAMBDA call : call.callback = "on_progress")

\* C17: progress is reported once per chunk after the chunk has been
\* processed, as processed / total where processed counts the chunks
\* processed so far, so the report numbered k, made after chunk k, says
\* k / total; every fraction lies between 0 and 1 and the fractions never
\* decrease.
C17_ProgressAfterEachChunk ==
    \A k \in 1..Len(progress_reports) :
        /\ progress_reports[k].processed = k
        /\ 0 <= progress_reports[k].processed
        /\ progress_reports[k].processed <= progress_reports[k].total
        /\ k > 1 => progress_reports[k - 1].processed * progress_reports[k].total
                        <= progress_reports[k].processed * progress_reports[k - 1].total


\* how often x is an item of the sequence s
times(s, x) == Cardinality({k \in 1..Len(s) : s[k] = x})

\* a parallel write that has not met an error
parallel_write_going_well ==
    /\ writing
    /\ parallel(meta_data, parallel_compression)
    /\ wpc \notin {"start", "error"}

\* a parallel read that has not met an error
parallel_read_going_well ==
    /\ reading
    /\ parallel_read(rd_meta, parallel_decompression)
    /\ rpc \notin {"start", "error"}

\* the places where the block with this (layer, chunk) id is during a
\* parallel write: in the block iterator, on a thread of the pool, in the
\* channel, among the pending chunks, written to the file
places_of_block(id) ==
    << times([k \in 1..Len(blocks) |-> << blocks[k].index.layer, blocks[k].chunk_index >>], id),
       Cardinality({b \in compressing : << b.index.layer, b.chunk_index >> = id}),
       times([k \in 1..Len(channel) |-> << channel[k][2].layer_index, channel[k][1] >>], id),
       IF id \in DOMAIN pending_blocks THEN 1 ELSE 0,
       times([k \in 1..Len(write_calls) |-> << write_calls[k].layer, write_calls[k].chunk_index >>], id) >>

\* the offsets of the chunks of the file being read, in file order
offsets_of_file == [k \in 1..Len(rd_file) |-> rd_file[k].offset]

\* the chunks of the file being read are each in one place during a
\* parallel read: the chunk source yields them once each in the order of
\* their offsets, and a chunk it has yielded is on a thread of the pool or
\* has become one block in the channel or one block delivered to the
\* coordinator
chunks_in_one_place ==
    /\ rd_visited \o offsets = offsets_of_file
    /\ decompressing \subseteq {read_chunk(rd_file, offset) : offset \in Range(rd_visited)}
    /\ Cardinality(decompressing) + Len(rd_channel) + Len(delivered) = Len(rd_visited)

\* the items a LineIter has yet to yield: for each row from y to end_y one
\* item per channel, less the channels of row y already yielded
lines_left(it) ==
    IF it.y < it.end_y THEN (it.end_y - it.y) * Len(it.channel_sizes) - it.channel ELSE 0

\* no block of the file being read has more lines than this: the rows of
\* the largest layer, each with the most channels
most_lines ==
    LET rows == {rd_meta[k].data_size[2] : k \in 1..Len(rd_meta)}
        channels == {Len(rd_meta[k].channels) : k \in 1..Len(rd_meta)}
    IN  (CHOOSE most \in rows : \A count \in rows : count <= most)
        * (CHOOSE most \in channels : \A count \in channels : count <= most)

\* the steps a parallel run has yet to take: for an item of the source its
\* take, its send, its receipt and the lines of its block, for an item on a
\* thread one step less, for an item in the channel two steps less, the
\* lines of the received block that insert has not seen, and one for each
\* stage of the function; none when the function has returned
pipeline_steps(longest, stage, source, on_threads, in_channel, lines) ==
    IF stage = 0 THEN 0
    ELSE (longest + 3) * source + (longest + 2) * on_threads + (longest + 1) * in_channel
         + lines + stage

\* the steps the run has yet to take in this state
pipeline_steps_left ==
    IF writing
    THEN pipeline_steps(0, IF wpc = "blocks" THEN 3 ELSE IF wpc = "receive" THEN 2
                           ELSE IF wpc = "tables" THEN 1 ELSE 0,
                        Len(blocks), Cardinality(compressing), Len(channel), 0)
    ELSE pipeline_steps(most_lines, IF rpc = "pool" THEN 2 ELSE IF rpc = "receive" THEN 1 ELSE 0,
                        Len(offsets), Cardinality(decompressing), Len(rd_channel),
                        IF rd_block = None THEN 0 ELSE lines_left(rd_iter))

\* the steps the run has yet to take in the next state
pipeline_steps_left_next ==
    IF writing
    THEN pipeline_steps(0, IF wpc' = "blocks" THEN 3 ELSE IF wpc' = "receive" THEN 2
                           ELSE IF wpc' = "tables" THEN 1 ELSE 0,
                        Len(blocks'), Cardinality(compressing'), Len(channel'), 0)
    ELSE pipeline_steps(most_lines, IF rpc' = "pool" THEN 2 ELSE IF rpc' = "receive" THEN 1 ELSE 0,
                        Len(offsets'), Cardinality(decompressing'), Len(rd_channel'),
                        IF rd_block' = None THEN 0 ELSE lines_left(rd_iter'))

\* a step of the pipeline can be taken: a thread of the pool can send its
\* result or take the next item, the pool is done, the coordinator can
\* receive or insert a line, or the receiver is exhausted
pipeline_goes_on ==
    /\ (parallel_write_going_well /\ wpc = "blocks") =>
        \/ compressing # {}
        \/ blocks # <<>> /\ Cardinality(compressing) < NumWorkers
        \/ blocks = <<>> /\ compressing = {}
    /\ (parallel_read_going_well /\ rpc = "pool") =>
        \/ decompressing # {}
        \/ offsets # <<>> /\ Cardinality(decompressing) < NumWorkers
        \/ offsets = <<>> /\ decompressing = {}
    /\ parallel_write_going_well => wpc \in {"blocks", "receive", "tables", "done"}
    /\ parallel_read_going_well => rpc \in {"pool", "receive", "done"}

\* C38: in parallel mode without errors every chunk of the chunk source
\* (read) and every block of the block iterator (write) is in exactly one
\* place at any time (not yet taken, on one thread of the pool, in the
\* channel, or received by the coordinator), so none is lost and none is
\* processed or received twice; the pool and the receiver loop never wait
\* for each other, every step brings the run nearer to its end, and when the
\* function has returned Ok the coordinator has received every result
\* exactly once.
C38_EachBlockOnceAndTheLoopEnds ==
    /\ [](parallel_write_going_well =>
            /\ \A id \in Range(expected_ids(meta_data)) :
                    SumSeq(places_of_block(id)) = 1
            /\ Len(blocks) + Cardinality(compressing) + Len(channel)
                    + Cardinality(DOMAIN pending_blocks) + Len(write_calls)
                = offset_table_size(meta_data)
            /\ wpc = "done" =>
                /\ Len(write_calls) = offset_table_size(meta_data)
                /\ write_return = "Ok")
    /\ [](parallel_read_going_well =>
            /\ chunks_in_one_place
            /\ rd_block # None => lines_left(rd_iter) = Len(collect_lines(rd_iter))
            /\ rpc = "done" =>
                /\ Len(delivered) = Len(rd_file)
                /\ rd_return = "Ok"
                /\ \A index \in Range(delivered) :
                        times(delivered, index) = times(visited_indices, index))
    /\ []pipeline_goes_on
    /\ [][(parallel_write_going_well \/ parallel_read_going_well)
            => /\ pipeline_steps_left_next >= 0
               /\ pipeline_steps_left_next < pipeline_steps_left
               /\ pipeline_steps_left_next = 0 =>
                    IF writing THEN wpc' \in {"done", "error"}
                    ELSE rpc' \in {"done", "error"}]_vars

\* a parallel write of three chunks or more, compressed on the pool and put
\* in the order of the file by the coordinator, has returned Ok
C38_Witness ==
    /\ parallel_write_going_well
    /\ requires_sorting(meta_data)
    /\ write_return = "Ok"
    /\ Len(write_calls) >= 3
    /\ << "compress_to_chunk", "worker" >> \in executed

(***************************************************************************)
(* huffman.rs: the operators of the bit stream and of the code table.  The *)
(* i64 c of read_bits is the sequence of its 64 bits, the highest first,   *)
(* and a call of read_bits returns [status, value, c, lc, read].  A code   *)
(* table is a function from the symbols 0..size-1 to i64; an entry is a    *)
(* code length before canonical_table and length | (code << 6) after it.   *)
(***************************************************************************)
\* the width of c
I64Bits == 64

\* the bits of a byte
ByteBits == 8

\* bit i of a byte, bit 0 the lowest
bit_of(byte, i) == (byte \div Pow2(i)) % 2

\* (c << 8) | byte
shift_in(c, byte) ==
    [k \in 1..I64Bits |->
        IF k <= I64Bits - ByteBits THEN c[k + ByteBits] ELSE bit_of(byte, I64Bits - k)]

\* (c >> lc) & ((1 << count) - 1); the shift of an i64 to the right fills
\* up with the sign bit
RECURSIVE bits_at(_, _, _)
bits_at(c, lc, count) ==
    IF count = 0 THEN 0
    ELSE (IF lc >= I64Bits THEN c[1] ELSE c[I64Bits - lc])
            + 2 * bits_at(c, lc + 1, count - 1)

\* lines 287-297: read_bits; u8::read(..).expect(..) panics at the end of
\* the stream
RECURSIVE read_bits(_, _, _, _)
read_bits(count, c, lc, read) ==
    IF lc < count
    THEN IF read = <<>>
         THEN [status |-> "Panic", value |-> 0, c |-> c, lc |-> lc, read |-> read]
         ELSE read_bits(count, shift_in(c, Head(read)), lc + ByteBits, Tail(read))
    ELSE [status |-> "Ok", value |-> bits_at(c, lc - count, count),
          c |-> c, lc |-> lc - count, read |-> read]

\* lines 571, 595: assert!(s_code[j] <= 58), the longest code
MaxCodeLength == 58

\* line 321: let mut n = [ 0_i64; 59 ]
CountsSize == 59

\* line 245: length(code) = code & 63
length(packed) == packed % 64

\* line 249: code(code) = code >> 6
code(packed) == packed \div 64

\* lines 330-332: the number of codes of each length
count_lengths(h_code) ==
    [i \in 0..(CountsSize - 1) |-> Cardinality({s \in DOMAIN h_code : h_code[s] = i})]

\* a variant that steps through n from its first entry to its last
RECURSIVE first_codes_forward(_, _, _)
first_codes_forward(n, i, c) ==
    IF i > CountsSize - 1 THEN n
    ELSE first_codes_forward([n EXCEPT ![i] = c], i + 1, (c + n[i]) \div 2)

\* lines 346-351: for n in n.iter_mut().rev(), from entry i down to entry 0:
\* the numerically lowest code of each length
RECURSIVE first_codes(_, _, _)
first_codes(n, i, c) ==
    IF i < 0 THEN n
    ELSE first_codes([n EXCEPT ![i] = c], i - 1, (c + n[i]) \div 2)

\* a variant that adds the code to the length without shifting it
RECURSIVE assign_codes_unshifted(_, _, _)
assign_codes_unshifted(h_code, n, i) ==
    IF i \notin DOMAIN h_code THEN h_code
    ELSE LET l == h_code[i]
         IN  IF l > 0
             THEN assign_codes_unshifted([h_code EXCEPT ![i] = l + n[l]],
                                         [n EXCEPT ![l] = n[l] + 1], i + 1)
             ELSE assign_codes_unshifted(h_code, n, i + 1)

\* a variant in which every symbol of a length takes the first code of the
\* length
RECURSIVE assign_codes_repeated(_, _, _)
assign_codes_repeated(h_code, n, i) ==
    IF i \notin DOMAIN h_code THEN h_code
    ELSE LET l == h_code[i]
         IN  IF l > 0
             THEN assign_codes_repeated([h_code EXCEPT ![i] = l + n[l] * 64], n, i + 1)
             ELSE assign_codes_repeated(h_code, n, i + 1)

\* lines 365-371: each symbol from i on takes the next code of its length
RECURSIVE assign_codes(_, _, _)
assign_codes(h_code, n, i) ==
    IF i \notin DOMAIN h_code THEN h_code
    ELSE LET l == h_code[i]
         IN  IF l > 0
             THEN assign_codes([h_code EXCEPT ![i] = l + n[l] * 64],
                               [n EXCEPT ![l] = n[l] + 1], i + 1)
             ELSE assign_codes(h_code, n, i + 1)

\* lines 315-372: canonical_table
canonical_table(h_code) ==
    assign_codes(h_code, first_codes(count_lengths(h_code), CountsSize - 1, 0), 0)


\* line 118: SHORT_ZEROCODE_RUN
SHORT_ZEROCODE_RUN == 59

\* line 119: LONG_ZEROCODE_RUN
LONG_ZEROCODE_RUN == 63

\* line 120: SHORTEST_LONG_RUN
SHORTEST_LONG_RUN == 2 + LONG_ZEROCODE_RUN - SHORT_ZEROCODE_RUN

\* line 168: the bits of a code length in the packed table
CodeLengthBits == 6

\* line 182: the bits of the length of a long run of zeroes
RunLengthBits == 8

\* lines 194-196, 221-223: the entries from index first up to index last - 1
\* are set to 0
zero_run(encoding_table, first, last) ==
    [i \in DOMAIN encoding_table |->
        IF first <= i /\ i < last THEN 0 ELSE encoding_table[i]]

\* a variant that never finds the stream exhausted
stream_exhausted_never(remaining_bytes) == FALSE

\* lines 163, 177: if remaining_bytes.len() < 1
stream_exhausted(remaining_bytes) == Len(remaining_bytes) < 1

\* a run of zeroes may end anywhere
run_overruns_never(min_hcode_index, zerun, max_hcode_index) == FALSE

\* lines 186, 217: min_hcode_index + zerun > max_hcode_index + 1
run_overruns(min_hcode_index, zerun, max_hcode_index) ==
    min_hcode_index + zerun > max_hcode_index + 1

\* lines 159-231: the loop of unpack_encoding_table.  The index written at
\* line 169 is the current symbol, as in the reference (hcode[im]).  A call
\* returns [status, message, encoding_table, remaining_bytes, c, lc, index,
\* iterations], iterations being the values of min_hcode_index at the top
\* of the loop body.
RECURSIVE unpack_loop(_, _, _, _, _, _, _)
unpack_loop(remaining_bytes, c, lc, min_hcode_index, max_hcode_index, encoding_table, iterations) ==
    LET at_end(status, message, table) ==
            [status |-> status, message |-> message, encoding_table |-> table,
             remaining_bytes |-> remaining_bytes, c |-> c, lc |-> lc,
             index |-> min_hcode_index, iterations |-> iterations]
        table_length(table) == at_end("InvalidData", "huffman table length", table)
        entered == Append(iterations, min_hcode_index)
    IN  IF min_hcode_index > max_hcode_index
        THEN at_end("Ok", "", encoding_table)
        ELSE IF stream_exhausted(remaining_bytes)
        THEN [table_length(encoding_table) EXCEPT !.iterations = entered]
        ELSE
        LET code_len == read_bits(CodeLengthBits, c, lc, remaining_bytes)
        IN  IF code_len.status = "Panic" \/ min_hcode_index \notin DOMAIN encoding_table
            THEN [at_end("Panic", "", encoding_table) EXCEPT !.iterations = entered]
            ELSE
            LET written == [encoding_table EXCEPT ![min_hcode_index] = code_len.value]
                stopped(result) ==
                    [result EXCEPT !.remaining_bytes = code_len.read, !.c = code_len.c,
                                   !.lc = code_len.lc, !.iterations = entered]
            IN  IF code_len.value = LONG_ZEROCODE_RUN
                THEN IF stream_exhausted(code_len.read)
                     THEN stopped(table_length(written))
                     ELSE
                     LET run == read_bits(RunLengthBits, code_len.c, code_len.lc,
                                          code_len.read)
                         zerun == run.value + SHORTEST_LONG_RUN
                     IN  IF run.status = "Panic"
                         THEN stopped(at_end("Panic", "", written))
                         ELSE IF run_overruns(min_hcode_index, zerun, max_hcode_index)
                         THEN [stopped(table_length(written)) EXCEPT
                                    !.remaining_bytes = run.read, !.c = run.c, !.lc = run.lc]
                         ELSE IF min_hcode_index + zerun - 1 \notin DOMAIN written
                         THEN [stopped(at_end("Panic", "", written)) EXCEPT
                                    !.remaining_bytes = run.read, !.c = run.c, !.lc = run.lc]
                         ELSE unpack_loop(run.read, run.c, run.lc,
                                          min_hcode_index + zerun, max_hcode_index,
                                          zero_run(written, min_hcode_index,
                                                   min_hcode_index + zerun),
                                          entered)
                ELSE IF code_len.value >= SHORT_ZEROCODE_RUN
                THEN LET zerun == code_len.value - SHORT_ZEROCODE_RUN + 2
                     IN  IF run_overruns(min_hcode_index, zerun, max_hcode_index)
                         THEN stopped(table_length(written))
                         ELSE IF min_hcode_index + zerun - 1 \notin DOMAIN written
                         THEN stopped(at_end("Panic", "", written))
                         ELSE unpack_loop(code_len.read, code_len.c, code_len.lc,
                                          min_hcode_index + zerun, max_hcode_index,
                                          zero_run(written, min_hcode_index,
                                                   min_hcode_index + zerun),
                                          entered)
                ELSE unpack_loop(code_len.read, code_len.c, code_len.lc,
                                 min_hcode_index + 1, max_hcode_index, written, entered)

\* lines 147-240: unpack_encoding_table.  A call returns the record of the
\* loop with lengths, the table as the loop left it, and encoding_table,
\* the table after canonical_table (line 237), which runs when the loop
\* ended well; packed is the stream the caller is left with (line 234).
unpack_encoding_table(packed, min_hcode_index, max_hcode_index, encoding_table) ==
    LET unpacked == unpack_loop(packed, [k \in 1..I64Bits |-> 0], 0, min_hcode_index,
                                max_hcode_index, encoding_table, <<>>)
    IN  [status |-> unpacked.status, message |-> unpacked.message,
         lengths |-> unpacked.encoding_table,
         encoding_table |-> IF unpacked.status = "Ok"
                            THEN canonical_table(unpacked.encoding_table)
                            ELSE unpacked.encoding_table,
         packed |-> IF unpacked.status = "Ok" THEN unpacked.remaining_bytes ELSE packed,
         lc |-> unpacked.lc, index |-> unpacked.index,
         iterations |-> unpacked.iterations]


(***************************************************************************)
(* huffman.rs: compress and decompress.  A call returns a record           *)
(*   status    "Ok" | "UnexpectedEof" | "InvalidData" | "Panic"            *)
(*   message   the text of the error                                       *)
(*   position  the number of bytes of the input read so far                *)
(*   result    the output buffer after the call                            *)
(***************************************************************************)
\* the most symbols of an input or an output buffer
MaxSymbols == 2

\* line 116: ENCODE_SIZE = (1 << ENCODE_BITS) + 1
ENCODE_SIZE == 65537

\* the bytes of the header of compressed data: five u32
HeaderBytes == 20

\* the bytes of one u32
U32Bytes == 4

\* u32 as 4 little-endian bytes
u32_bytes(v) == [k \in 1..U32Bytes |-> le_byte(v, k - 1)]

\* u32::read at a position of the input: the value, or an error when fewer
\* than 4 bytes are left
u32_read(bytes, position) ==
    IF Len(bytes) < position + U32Bytes
    THEN [ok |-> FALSE, value |-> 0]
    ELSE [ok |-> TRUE, value |-> le_value(SubSeq(bytes, position + 1, position + U32Bytes))]

\* lines 107-109: compress is unimplemented!()
compress(uncompressed, result) ==
    [status |-> "Panic", message |-> "not implemented", position |-> 0, result |-> result]

\* a check that lets only iMin < iMax < ENCODE_SIZE pass
table_size_invalid_unless_ordered(min_hcode_index, max_hcode_index) ==
    ~(min_hcode_index < max_hcode_index /\ max_hcode_index < ENCODE_SIZE)

\* line 45: the check of the two indices of the header; they are unsigned,
\* so the comparisons with 0 never hold
table_size_invalid(min_hcode_index, max_hcode_index) ==
    min_hcode_index >= ENCODE_SIZE \/ max_hcode_index >= ENCODE_SIZE

\* line 82: let mut frequencies = [0_i64; ENCODE_SIZE], of which the entries
\* up to max_hcode_index are kept: the call of line 84 reaches no other
frequencies(max_hcode_index) == [i \in 0..max_hcode_index |-> 0]

\* no table was unpacked
NoTable == [status |-> "not called"]

\* lines 17-105: decompress.  unpack_encoding_table fills a local table and
\* its Result is dropped (line 84 has no ?); nothing is written to result.
\* table is what the call of unpack_encoding_table returned.
decompress(compressed, result) ==
    LET failed(status, message, position) ==
            [status |-> status, message |-> message, position |-> position,
             result |-> result, unpacked |-> FALSE, table |-> NoTable]
        eof(position) == failed("UnexpectedEof", "failed to fill whole buffer", position)
        min_hcode_index == u32_read(compressed, 0)
        max_hcode_index == u32_read(compressed, 4)
        table_len == u32_read(compressed, 8)
        bit_count == u32_read(compressed, 12)
        padding == u32_read(compressed, 16)
    IN  IF Len(compressed) < HeaderBytes /\ result # <<>>
        THEN failed("UnexpectedEof", "invalid huffman input", 0)
        ELSE IF ~min_hcode_index.ok THEN eof(0)
        ELSE IF ~max_hcode_index.ok THEN eof(4)
        ELSE IF ~table_len.ok THEN eof(8)
        ELSE IF ~bit_count.ok THEN eof(12)
        ELSE IF table_size_invalid(min_hcode_index.value, max_hcode_index.value)
        THEN failed("InvalidData", "huffman table size", 16)
        ELSE IF ~padding.ok THEN eof(16)
        ELSE IF Len(compressed) < (bit_count.value + 7) \div 8
        THEN failed("InvalidData", "huffman content length", 20)
        ELSE [status |-> "Ok", message |-> "", position |-> 20, result |-> result,
              unpacked |-> TRUE,
              table |-> unpack_encoding_table(
                            SubSeq(compressed, HeaderBytes + 1, Len(compressed)),
                            min_hcode_index.value, max_hcode_index.value,
                            frequencies(max_hcode_index.value))]

\* the inputs of the calls: header fields inside and outside their ranges,
\* a body, and the whole cut off at every length up to the header and past it
HufIndices == {0, 2, ENCODE_SIZE - 1, ENCODE_SIZE}
HufBitCounts == {0, 8, 200}
HufBodies == {<<>>, <<5>>, <<248>>}
HufSymbols == {0, 1, 65535}

HufInputs ==
    LET whole(min, max, bits, body) ==
            u32_bytes(min) \o u32_bytes(max) \o u32_bytes(0) \o u32_bytes(bits)
                \o u32_bytes(0) \o body
    IN  {SubSeq(whole(min, max, bits, body), 1, n) :
            min \in HufIndices, max \in {2, ENCODE_SIZE}, bits \in HufBitCounts,
            body \in HufBodies, n \in {0, 3, 15, 16, 19}}
        \cup
        {whole(min, max, bits, body) :
            min \in HufIndices, max \in {2, ENCODE_SIZE}, bits \in HufBitCounts,
            body \in HufBodies}

HufBuffers == UNION {[1..n -> HufSymbols] : n \in 0..MaxSymbols}

InitHuf ==
    /\ IdleWrite /\ IdleLines /\ IdleChunk /\ IdleRead /\ IdleCanon /\ IdleBits
    /\ IdleBuffer /\ IdleUnpack /\ IdleBuild
    /\ hf_uncompressed \in HufBuffers
    /\ hf_compressed \in HufInputs
    /\ hf_result \in {<<>>, <<7>>}
    /\ hf_return = None
    /\ hf_pc = "start"

\* compress(hf_uncompressed, ...) is called
CompressCall ==
    /\ hf_pc = "start"
    /\ hf_return' = compress(hf_uncompressed, <<>>)
    /\ hf_pc' = "compressed"
    /\ UNCHANGED << hf_uncompressed, hf_compressed, hf_result >>
    /\ UNCHANGED other_than_huf

\* decompress(hf_compressed, hf_result) is called
DecompressCall ==
    /\ hf_pc = "start"
    /\ hf_return' = decompress(hf_compressed, hf_result)
    /\ hf_result' = decompress(hf_compressed, hf_result).result
    /\ hf_pc' = "decompressed"
    /\ UNCHANGED << hf_uncompressed, hf_compressed >>
    /\ UNCHANGED other_than_huf

NextHuf == CompressCall \/ DecompressCall

SpecHuf == InitHuf /\ [][NextHuf]_vars

\* C8: compress of any sequence of symbols succeeds, and decompress of its
\* output into a buffer of the same length gives the symbols back.
C8_HuffmanRoundTrip ==
    hf_pc = "compressed" =>
        /\ hf_return.status = "Ok"
        /\ LET buffer == [k \in 1..Len(hf_uncompressed) |-> 0]
               back == decompress(hf_return.result, buffer)
           IN  back.status = "Ok" /\ back.result = hf_uncompressed

\* C10: decompress of fewer than 20 bytes returns Ok, having read nothing and
\* left the output alone, when the output buffer is empty, and returns an
\* error when it is not.
C10_ShortInput ==
    (hf_pc = "decompressed" /\ Len(hf_compressed) < HeaderBytes) =>
        IF hf_result = <<>>
        THEN hf_return.status = "Ok" /\ hf_return.position = 0
        ELSE hf_return.status \in {"UnexpectedEof", "InvalidData"}

\* decompress was called on an input whose four header fields can be read
header_read ==
    /\ hf_pc = "decompressed"
    /\ Len(hf_compressed) >= 4 * U32Bytes
    /\ ~(Len(hf_compressed) < HeaderBytes /\ hf_result # <<>>)

\* iMin and iMax of the header
header_min == u32_read(hf_compressed, 0).value
header_max == u32_read(hf_compressed, U32Bytes).value

\* the call was refused for its table size before any table was unpacked
refused_for_table_size ==
    /\ hf_return.status = "InvalidData"
    /\ hf_return.message = "huffman table size"
    /\ ~hf_return.unpacked

\* C20 as stated: decompress refuses with an invalid-data error, before it
\* unpacks any table, every header that does not satisfy
\* iMin < iMax < ENCODE_SIZE.
C20_RejectsUnlessMinBelowMax ==
    (header_read /\ ~(header_min < header_max /\ header_max < ENCODE_SIZE))
        => refused_for_table_size

\* C20 amended: decompress refuses with an invalid-data error, before it
\* unpacks any table, every header with iMin >= ENCODE_SIZE or
\* iMax >= ENCODE_SIZE, and no other header for its table size: a header
\* with iMin >= iMax and both below ENCODE_SIZE passes the check.
C20_RejectsIndicesOutOfRange ==
    header_read =>
        (refused_for_table_size
            <=> (header_min >= ENCODE_SIZE \/ header_max >= ENCODE_SIZE))

\* a whole input with iMin = iMax = 2 was taken and its table unpacked
C20_Witness ==
    /\ header_read
    /\ header_min = 2
    /\ header_max = 2
    /\ hf_return.status = "Ok"
    /\ hf_return.unpacked


\* nBits of the header
header_bit_count == u32_read(hf_compressed, 3 * U32Bytes).value

\* the bytes that follow the header
body_length == Len(hf_compressed) - HeaderBytes

\* C21: decompress refuses with an invalid-data error every input in which
\* nBits is more than 8 times the number of bytes that follow the 20 bytes
\* of the header.
C21_RejectsBitCountPastBody ==
    (/\ hf_pc = "decompressed"
     /\ Len(hf_compressed) >= HeaderBytes
     /\ header_bit_count > 8 * body_length)
        => hf_return.status = "InvalidData"


\* unpack_encoding_table was called and returned an error: a run of zeroes
\* went past iMax or the input ended before the table was complete
table_refused ==
    /\ hf_pc = "decompressed"
    /\ hf_return.unpacked
    /\ hf_return.table.status = "InvalidData"

\* C22: decompress returns an error whenever the packed table of code
\* lengths overruns iMax or the input ends before the table for iMin..iMax
\* is complete.
C22_TableErrorIsReturned ==
    table_refused => hf_return.status # "Ok"


(***************************************************************************)
(* huffman.rs: unpack_encoding_table.  The packed table is written from    *)
(* bit fields [width, value]: a code length of 6 bits, or the 6 bits of    *)
(* LONG_ZEROCODE_RUN and the 8 bits of a count.                            *)
(***************************************************************************)
\* the most items (code lengths and runs) of a packed table
MaxTableItems == 4

\* the symbols of the table handed in
MaxUnpackSymbols == 9

field(width, value) == [width |-> width, value |-> value]

\* the items drawn: code lengths, short runs of zeroes and long runs
TableItems ==
    {<< field(CodeLengthBits, v) >> : v \in {3, 58, SHORT_ZEROCODE_RUN, 62}}
    \cup {<< field(CodeLengthBits, LONG_ZEROCODE_RUN), field(RunLengthBits, n) >> :
            n \in {0, 255}}

\* the bits of a field, the most significant first
field_bits(f) ==
    [k \in 1..f.width |->
        IF f.width - k > 30 THEN 0 ELSE (f.value \div Pow2(f.width - k)) % 2]

\* the bytes that hold the bits of the fields one after the other, the
\* first bit in the highest bit of the first byte, the last byte filled up
\* with zeroes
packed_bytes(fields) ==
    LET bits == Flatten([k \in 1..Len(fields) |-> field_bits(fields[k])])
        bit(k) == IF k <= Len(bits) THEN bits[k] ELSE 0
    IN  [b \in 1..((Len(bits) + ByteBits - 1) \div ByteBits) |->
            SumSeq([k \in 1..ByteBits |->
                        bit(ByteBits * (b - 1) + k) * Pow2(ByteBits - k)])]

\* the tables drawn: the packed items, whole or without the last byte, for
\* a range of symbols of a table of zeroes or of fives
InitUnpack ==
    /\ IdleWrite /\ IdleLines /\ IdleChunk /\ IdleRead /\ IdleHuf /\ IdleCanon /\ IdleBits
    /\ IdleBuffer /\ IdleBuild
    /\ \E n \in 0..MaxTableItems : \E items \in [1..n -> TableItems] :
       \E cut \in {0, 1}, min_hcode_index \in {0, 2}, fill \in {0, 5} :
       \E max_hcode_index \in {0, 2, MaxUnpackSymbols - 2, MaxUnpackSymbols - 1} :
        /\ min_hcode_index <= max_hcode_index
        /\ up = [fields |-> Flatten(items),
                 packed |-> SubSeq(packed_bytes(Flatten(items)), 1,
                                   Max(0, Len(packed_bytes(Flatten(items))) - cut)),
                 min_hcode_index |-> min_hcode_index,
                 max_hcode_index |-> max_hcode_index,
                 encoding_table |-> [i \in 0..(MaxUnpackSymbols - 1) |-> fill],
                 return |-> NotReturned,
                 pc |-> "call"]

UnpackCall ==
    /\ up.pc = "call"
    /\ up' = [up EXCEPT
                !.return = unpack_encoding_table(up.packed, up.min_hcode_index,
                                                 up.max_hcode_index, up.encoding_table),
                !.pc = "unpacked"]
    /\ UNCHANGED other_than_unpack

NextUnpack == UnpackCall

SpecUnpack == InitUnpack /\ [][NextUnpack]_vars

\* the table with count entries from index on set to 0
zeroes_from(table, index, count) ==
    [i \in DOMAIN table |-> IF index <= i /\ i < index + count THEN 0 ELSE table[i]]

\* the table the fields stand for, from symbol index to symbol last: a value
\* below 59 is the length of the symbol; a value v of 59 to 62 stands for
\* v - 59 + 2 zeroes; 63 and a count stand for count + 6 zeroes
RECURSIVE table_of_fields(_, _, _, _)
table_of_fields(fields, index, last, table) ==
    IF index > last THEN [complete |-> TRUE, table |-> table]
    ELSE IF fields = <<>> THEN [complete |-> FALSE, table |-> table]
    ELSE LET v == Head(fields).value
         IN  IF v < 59
             THEN table_of_fields(Tail(fields), index + 1, last,
                                  [table EXCEPT ![index] = v])
             ELSE IF v <= 62
             THEN table_of_fields(Tail(fields), index + (v - 59 + 2), last,
                                  zeroes_from(table, index, v - 59 + 2))
             ELSE IF Len(fields) < 2 THEN [complete |-> FALSE, table |-> table]
             ELSE table_of_fields(Tail(Tail(fields)), index + fields[2].value + 6, last,
                                  zeroes_from(table, index, fields[2].value + 6))

\* C29: when unpack_encoding_table returns Ok, the lengths of the symbols
\* iMin..iMax are those its packed stream stands for: a 6-bit value below 59
\* is the length of the current symbol, a value v of 59 to 62 sets the next
\* v - 59 + 2 symbols to 0, the value 63 with its 8-bit count sets the next
\* count + 6 symbols to 0; the other symbols keep what they had, and no
\* symbol of iMin..iMax holds a value of 59 or more when canonical_table is
\* called.
C29_TableDecodedByTheRules ==
    (up.pc = "unpacked" /\ up.return.status = "Ok") =>
        LET expected == table_of_fields(up.fields, up.min_hcode_index,
                                        up.max_hcode_index, up.encoding_table)
        IN  /\ expected.complete
            /\ up.return.lengths = expected.table
            /\ \A i \in DOMAIN up.return.lengths :
                IF up.min_hcode_index <= i /\ i <= up.max_hcode_index
                THEN up.return.lengths[i] < 59
                ELSE up.return.lengths[i] = up.encoding_table[i]

\* a table of a long run, a short run and a code length has been unpacked
C29_Witness ==
    /\ up.pc = "unpacked"
    /\ up.return.status = "Ok"
    /\ Len(up.fields) = 4
    /\ up.fields[1].value = LONG_ZEROCODE_RUN
    /\ up.fields[3].value = SHORT_ZEROCODE_RUN
    /\ up.fields[4].value = 58
    /\ up.encoding_table[0] = 5
    /\ up.return.lengths[up.max_hcode_index] = 58


\* the symbols outside the range of the call
outside_the_range == {i \in DOMAIN up.encoding_table : i < up.min_hcode_index \/ i > up.max_hcode_index}

\* C39: unpack_encoding_table ends on every packed stream and every range
\* iMin <= iMax inside the table, with Ok or with an error value and never
\* with a panic of read_bits or of an index: the loop is entered with
\* strictly increasing symbol indices, all of them in [iMin, iMax]; the loop
\* writes no entry outside [iMin, iMax] and canonical_table leaves the zero
\* entries outside it at zero; on Ok the index is iMax + 1.
C39_UnpackEndsInsideTheTable ==
    up.pc = "unpacked" =>
        LET iterations == up.return.iterations
        IN  /\ up.return.status \in {"Ok", "InvalidData"}
            /\ Len(iterations) <= up.max_hcode_index - up.min_hcode_index + 1
            /\ iterations # <<>> => iterations[1] = up.min_hcode_index
            /\ \A k \in 1..Len(iterations) :
                    /\ iterations[k] <= up.max_hcode_index
                    /\ k < Len(iterations) => iterations[k] < iterations[k + 1]
                    /\ k = Len(iterations) => iterations[k] <= up.return.index
            /\ \A i \in outside_the_range :
                    /\ up.return.lengths[i] = up.encoding_table[i]
                    /\ up.encoding_table[i] = 0 => up.return.encoding_table[i] = 0
            /\ up.return.status = "Ok" =>
                    /\ up.return.index = up.max_hcode_index + 1
                    /\ iterations[Len(iterations)] < up.return.index

\* a table of zeroes has been unpacked for the symbols 2 to 8 in three
\* iterations, one of them a run of zeroes, and the symbols 0 and 1 are
\* as they were
C39_Witness ==
    /\ up.pc = "unpacked"
    /\ up.return.status = "Ok"
    /\ up.min_hcode_index = 2
    /\ up.max_hcode_index = MaxUnpackSymbols - 1
    /\ up.encoding_table[0] = 0
    /\ Len(up.return.iterations) = 3
    /\ up.return.iterations[3] > up.return.iterations[2] + 1
    /\ up.return.index = MaxUnpackSymbols
    /\ up.return.encoding_table[0] = 0

\* the number of symbols the fields stand for: one for a code length,
\* v - 59 + 2 for a short run, count + 6 for a long run and its count
RECURSIVE symbols_of(_)
symbols_of(fields) ==
    IF fields = <<>> THEN 0
    ELSE IF Head(fields).value < SHORT_ZEROCODE_RUN THEN 1 + symbols_of(Tail(fields))
    ELSE IF Head(fields).value < LONG_ZEROCODE_RUN
    THEN Head(fields).value - SHORT_ZEROCODE_RUN + 2 + symbols_of(Tail(fields))
    ELSE fields[2].value + SHORTEST_LONG_RUN + symbols_of(Tail(Tail(fields)))

\* the packed table is whole and its fields are those of the symbols iMin to
\* iMax and no more
table_fits_exactly ==
    /\ up.fields # <<>>
    /\ up.packed = packed_bytes(up.fields)
    /\ symbols_of(up.fields) = up.max_hcode_index - up.min_hcode_index + 1

\* C40: unpack_encoding_table returns the error of the exhausted stream
\* only when the bits of the next entry are not there: a packed table whose
\* last byte completes the entry of iMax, with no byte after it, is unpacked
\* with Ok.
C40_WholeTableIsUnpacked ==
    (up.pc = "unpacked" /\ table_fits_exactly) => up.return.status = "Ok"


(***************************************************************************)
(* huffman.rs: read_bits.  The i64 c is the sequence of its 64 bits, the   *)
(* highest first; a call returns [status, value, c, lc, read].             *)
(***************************************************************************)
\* the most bytes of a stream
MaxStreamBytes == 2

\* the bytes of the streams drawn
StreamBytes == {0, 165, 255}

\* the bit counts asked for: one bit, a code length, a run of zeroes
BitCounts == {1, 6, 8}

InitBits ==
    /\ IdleWrite /\ IdleLines /\ IdleChunk /\ IdleRead /\ IdleHuf /\ IdleCanon
    /\ IdleBuffer /\ IdleUnpack /\ IdleBuild
    /\ bt_read \in UNION {[1..n -> StreamBytes] : n \in 0..MaxStreamBytes}
    /\ bt_c = [k \in 1..I64Bits |-> 0]
    /\ bt_lc = 0
    /\ bt_return = [status |-> "not called", value |-> 0, count |-> 0]
    /\ bt_pc = "ready"

\* one call of read_bits on the stream
ReadBits ==
    /\ bt_pc = "ready"
    /\ \E count \in BitCounts :
        LET result == read_bits(count, bt_c, bt_lc, bt_read)
        IN  /\ bt_return' = [status |-> result.status, value |-> result.value,
                             count |-> count]
            /\ bt_c' = result.c
            /\ bt_lc' = result.lc
            /\ bt_read' = result.read
            /\ bt_pc' = IF result.status = "Panic" THEN "panicked" ELSE "ready"
    /\ UNCHANGED other_than_bits

NextBits == ReadBits

SpecBits == InitBits /\ [][NextBits]_vars

\* C19: read_bits on a stream that cannot supply the bits still needed
\* yields an error value to its caller and never panics.
C19_ReadPastEndIsError ==
    bt_return.status # "Panic"


(***************************************************************************)
(* huffman.rs: write_bits and read_bits, one after the other.  Fields are  *)
(* written to a stream with write_bits, the last byte is filled up, and    *)
(* the fields are read back with read_bits.  bt_read holds the bytes the   *)
(* reader has yet to take, bt_c and bt_lc the c and lc of the writer and   *)
(* then of the reader, bt_return the record [fields, out, values]: the     *)
(* fields written, the bytes written, the values read.                     *)
(***************************************************************************)
\* the most fields written to a stream
MaxBitFields == 3

\* the fields drawn: one bit, seven bits whose highest is set or not, a
\* byte, the longest code
BitFields ==
    {field(1, 1), field(7, 64), field(7, 3), field(ByteBits, 165), field(MaxCodeLength, 5)}

\* line 263: c << count
shift_left(c, count) ==
    [k \in 1..I64Bits |-> IF k + count <= I64Bits THEN c[k + count] ELSE 0]

\* line 266: c | bits, bits being a value below 2^31
bit_or(c, bits) ==
    [k \in 1..I64Bits |->
        IF I64Bits - k > 30 THEN c[k]
        ELSE IF c[k] = 1 \/ bit_of(bits, I64Bits - k) = 1 THEN 1 ELSE 0]

\* lines 268-271: while lc >= 8, lc -= 8 and (c >> lc) as u8 is written;
\* the shift of an i64 to the right fills up with the sign bit
RECURSIVE flush_bytes(_, _, _)
flush_bytes(c, lc, out) ==
    IF lc < ByteBits THEN [lc |-> lc, out |-> out]
    ELSE LET bit(p) == IF p >= I64Bits THEN c[1] ELSE c[I64Bits - p]
             byte == SumSeq([k \in 1..ByteBits |->
                                bit(lc - k) * Pow2(ByteBits - k)])
         IN  flush_bytes(c, lc - ByteBits, Append(out, byte))

\* lines 262-272: write_bits; a call returns [c, lc, out]
write_bits(count, bits, c, lc, out) ==
    LET joined == bit_or(shift_left(c, count), bits)
        flushed == flush_bytes(joined, lc + count, out)
    IN  [c |-> joined, lc |-> flushed.lc, out |-> flushed.out]

InitBitIO ==
    /\ IdleWrite /\ IdleLines /\ IdleChunk /\ IdleRead /\ IdleHuf /\ IdleCanon
    /\ IdleBuffer /\ IdleUnpack /\ IdleBuild
    /\ bt_read = <<>>
    /\ bt_c = [k \in 1..I64Bits |-> 0]
    /\ bt_lc = 0
    /\ bt_return = [fields |-> <<>>, out |-> <<>>, values |-> <<>>]
    /\ bt_pc = "writing"

\* one call of write_bits
WriteBits ==
    /\ bt_pc = "writing"
    /\ Len(bt_return.fields) < MaxBitFields
    /\ \E f \in BitFields :
        LET result == write_bits(f.width, f.value, bt_c, bt_lc, bt_return.out)
        IN  /\ bt_c' = result.c
            /\ bt_lc' = result.lc
            /\ bt_return' = [bt_return EXCEPT !.fields = Append(bt_return.fields, f),
                                              !.out = result.out]
    /\ UNCHANGED << bt_read, bt_pc >>
    /\ UNCHANGED other_than_bits

\* the bits left in c are written with zeroes up to the end of their byte;
\* the reader starts on the bytes written with c = 0 and lc = 0
PadLastByte ==
    /\ bt_pc = "writing"
    /\ LET result == IF bt_lc > 0
                     THEN write_bits(ByteBits - bt_lc, 0, bt_c, bt_lc, bt_return.out)
                     ELSE [c |-> bt_c, lc |-> bt_lc, out |-> bt_return.out]
       IN  /\ bt_return' = [bt_return EXCEPT !.out = result.out]
           /\ bt_read' = result.out
    /\ bt_c' = [k \in 1..I64Bits |-> 0]
    /\ bt_lc' = 0
    /\ bt_pc' = "reading"
    /\ UNCHANGED other_than_bits

\* one call of read_bits, for the next field that was written
ReadBack ==
    /\ bt_pc = "reading"
    /\ Len(bt_return.values) < Len(bt_return.fields)
    /\ LET f == bt_return.fields[Len(bt_return.values) + 1]
           result == read_bits(f.width, bt_c, bt_lc, bt_read)
       IN  /\ bt_c' = result.c
           /\ bt_lc' = result.lc
           /\ bt_read' = result.read
           /\ bt_return' = [bt_return EXCEPT !.values = Append(bt_return.values, result.value)]
           /\ bt_pc' = IF result.status = "Panic" THEN "panicked" ELSE "reading"
    /\ UNCHANGED other_than_bits

NextBitIO ==
    \/ WriteBits
    \/ PadLastByte
    \/ ReadBack

SpecBitIO == InitBitIO /\ [][NextBitIO]_vars

\* C36: the values written with write_bits and read back with read_bits
\* after the last byte was filled up are the values written, in their
\* order; the bytes written hold the bits of the fields one after the
\* other, the first bit in the highest bit of the first byte; after every
\* call of write_bits or read_bits fewer than 8 bits are left in c.
C36_BitsRoundTrip ==
    /\ bt_lc < ByteBits
    /\ bt_pc # "panicked"
    /\ bt_pc = "reading" =>
        /\ bt_return.out = packed_bytes(bt_return.fields)
        /\ \A k \in 1..Len(bt_return.values) :
                bt_return.values[k] = bt_return.fields[k].value


(***************************************************************************)
(* huffman.rs: canonical_table.  The table is a function from the symbols  *)
(* 0..size-1 to i64; before the call an entry is a code length, after it   *)
(* length | (code << 6).                                                   *)
(***************************************************************************)
\* the most symbols of a table
MaxTableSize == 4

\* the longest code length drawn
MaxDrawnLength == 3

CodeLengthTables ==
    UNION {[0..(size - 1) -> 0..MaxDrawnLength] : size \in 1..MaxTableSize}

InitCanon ==
    /\ IdleWrite /\ IdleLines /\ IdleChunk /\ IdleRead /\ IdleHuf /\ IdleBits
    /\ IdleBuffer /\ IdleUnpack /\ IdleBuild
    /\ cn_lengths \in CodeLengthTables
    /\ cn_h_code = cn_lengths
    /\ cn_pc = "lengths"

CanonicalTable ==
    /\ cn_pc = "lengths"
    /\ cn_h_code' = canonical_table(cn_h_code)
    /\ cn_pc' = "codes"
    /\ UNCHANGED cn_lengths
    /\ UNCHANGED other_than_canon

NextCanon == CanonicalTable

SpecCanon == InitCanon /\ [][NextCanon]_vars

\* the longest code length of a table
max_len(lengths) ==
    CHOOSE l \in {lengths[s] : s \in DOMAIN lengths} :
        \A s \in DOMAIN lengths : lengths[s] <= l

\* a shorter code, filled with zeroes to the longest length, is greater
\* than every longer code
shorter_codes_greater ==
    \A i, j \in DOMAIN cn_h_code :
        (length(cn_h_code[i]) > 0 /\ length(cn_h_code[i]) < length(cn_h_code[j])) =>
            code(cn_h_code[i]) * Pow2(max_len(cn_lengths) - length(cn_h_code[i]))
                > code(cn_h_code[j]) * Pow2(max_len(cn_lengths) - length(cn_h_code[j]))

\* the code lengths are those of a complete prefix code: the sum of
\* 2^-length over the symbols with a code is 1 (Kraft's equality)
complete_lengths(lengths) ==
    SumSeq([k \in 1..Cardinality(DOMAIN lengths) |->
                IF lengths[k - 1] > 0
                THEN Pow2(max_len(lengths) - lengths[k - 1]) ELSE 0])
        = Pow2(max_len(lengths))

\* C9 as stated: after canonical_table on any table of code lengths, a
\* shorter code filled with zeroes is greater than every longer code.
C9_AnyTable ==
    cn_pc = "codes" => shorter_codes_greater

\* C9, amended: after canonical_table on a table whose code lengths are
\* those of a complete prefix code, a shorter code filled with zeroes to the
\* longest length is greater than every longer code.
C9_CompleteTable ==
    (cn_pc = "codes" /\ complete_lengths(cn_lengths)) => shorter_codes_greater

\* canonical_table has run on a complete table of three different lengths
C9_Witness ==
    /\ cn_pc = "codes"
    /\ complete_lengths(cn_lengths)
    /\ Cardinality({cn_lengths[s] : s \in DOMAIN cn_lengths} \ {0}) = 3

\* C30: canonical_table keeps every code length: for every symbol the low 6
\* bits of its entry after the call are the code length the entry held
\* before the call, the code is held by the bits above them, and an entry
\* of length 0 stays exactly 0.
C30_LengthsKept ==
    cn_pc = "codes" =>
        /\ DOMAIN cn_h_code = DOMAIN cn_lengths
        /\ \A s \in DOMAIN cn_lengths :
            /\ length(cn_h_code[s]) = cn_lengths[s]
            /\ cn_h_code[s] = cn_lengths[s] + Pow2(6) * code(cn_h_code[s])
            /\ cn_h_code[s] >= 0
            /\ cn_lengths[s] = 0 => cn_h_code[s] = 0

\* canonical_table has run on a table with a symbol without a code and two
\* symbols of one length, the second of which has got a code other than 0
C30_Witness ==
    /\ cn_pc = "codes"
    /\ \E s \in DOMAIN cn_lengths : cn_lengths[s] = 0
    /\ \E s, t \in DOMAIN cn_lengths :
            /\ s # t
            /\ cn_lengths[s] = cn_lengths[t]
            /\ code(cn_h_code[s]) # code(cn_h_code[t])
            /\ code(cn_h_code[t]) > 1


\* the symbols i < j have the code length l and no symbol between them has
same_length_neighbours(i, j) ==
    /\ i < j
    /\ cn_lengths[i] > 0
    /\ cn_lengths[i] = cn_lengths[j]
    /\ \A k \in DOMAIN cn_lengths : (i < k /\ k < j) => cn_lengths[k] # cn_lengths[i]

\* C31: after canonical_table the symbols of one code length other than 0
\* have consecutive codes in the order of the symbols: the next symbol of
\* the same length has the code of the one before plus 1, so the codes of a
\* length are pairwise different and grow with the symbol.
C31_ConsecutiveCodes ==
    cn_pc = "codes" =>
        /\ \A i, j \in DOMAIN cn_lengths :
                same_length_neighbours(i, j) =>
                    code(cn_h_code[j]) = code(cn_h_code[i]) + 1
        /\ \A i, j \in DOMAIN cn_lengths :
                (i < j /\ cn_lengths[i] > 0 /\ cn_lengths[i] = cn_lengths[j]) =>
                    code(cn_h_code[i]) < code(cn_h_code[j])

\* canonical_table has run on a table with three symbols of one length, two
\* of which are parted by a symbol of another length
C31_Witness ==
    /\ cn_pc = "codes"
    /\ \E i, j, k \in DOMAIN cn_lengths :
            /\ same_length_neighbours(i, j)
            /\ same_length_neighbours(j, k)
            /\ k > j + 1

(***************************************************************************)
(* huffman.rs: build_encoding_table.  The tables (frequencies, h_link,     *)
(* f_heap, s_code) are functions from the symbols 0..size-1, size standing *)
(* for ENCODE_SIZE; the BinaryHeap is the sequence of its items, the       *)
(* greatest first.  An index the source leaves to the type checker         *)
(* (frequencies[m] with m an i64, hlink for h_link) is the index the       *)
(* reference quoted above the line uses.                                   *)
(***************************************************************************)
\* the number of entries of the greatest frequency table
MaxFrequencyTableSize == 4

\* the greatest frequency of a symbol
MaxFrequency == 2

\* lines 439-443: the index at which `while frequencies[index] != 0` stops,
\* or the size of the table if it runs past the last entry
RECURSIVE min_frequency_scan(_, _)
min_frequency_scan(frq, index) ==
    IF index \notin DOMAIN frq THEN index
    ELSE IF frq[index] # 0 THEN min_frequency_scan(frq, index + 1)
    ELSE index

\* lines 462-470: the loop over all indices from index on; locals is
\* [h_link, f_heap, nf, max_frequency_index]
RECURSIVE fill_heap(_, _, _)
fill_heap(frq, index, locals) ==
    IF index \notin DOMAIN frq THEN locals
    ELSE LET linked == [locals EXCEPT !.h_link[index] = index]
         IN  IF frq[index] # 0
             THEN fill_heap(frq, index + 1,
                            [linked EXCEPT !.f_heap[linked.nf] = index,
                                           !.nf = linked.nf + 1,
                                           !.max_frequency_index = index])
             ELSE fill_heap(frq, index + 1, linked)

\* BinaryHeap::push on a max-heap of i64
RECURSIVE heap_push(_, _)
heap_push(heap, item) ==
    IF heap = <<>> THEN <<item>>
    ELSE IF item >= Head(heap) THEN <<item>> \o heap
    ELSE <<Head(heap)>> \o heap_push(Tail(heap), item)

\* line 512: BinaryHeap::from(f_heap.to_vec()), the entries from index on
RECURSIVE heap_from(_, _)
heap_from(f_heap, index) ==
    IF index \notin DOMAIN f_heap THEN <<>>
    ELSE heap_push(heap_from(f_heap, index + 1), f_heap[index])

\* lines 331, 321: n[code as usize] += 1 on the 59 entries of n
canonical_table_panics(h_code) ==
    \E s \in DOMAIN h_code : h_code[s] > CountsSize - 1

\* a variant that leaves the terminator of the list of m as it is
merged_link_to_itself(j, m, mm) == j

\* line 575: the terminator of the list of m is linked to mm
merged_link(j, m, mm) == mm

FrequencyTables ==
    UNION {[0..(size - 1) -> 0..MaxFrequency] : size \in 1..MaxFrequencyTableSize}

InitBuild ==
    /\ IdleWrite /\ IdleLines /\ IdleChunk /\ IdleRead /\ IdleHuf /\ IdleCanon /\ IdleBits
    /\ IdleBuffer /\ IdleUnpack
    /\ \E given \in FrequencyTables :
        be = [given |-> given,
              frequencies |-> given,
              h_link |-> [s \in DOMAIN given |-> 0],
              heap |-> <<>>,
              nf |-> 0,
              s_code |-> [s \in DOMAIN given |-> 0],
              min_frequency_index |-> 0,
              max_frequency_index |-> 0,
              m |-> 0, mm |-> 0, j |-> 0,
              merges |-> <<>>,
              canonical_calls |-> 0,
              return |-> NotReturned,
              pc |-> "call"]

\* lines 404-516: the range of the symbols, the pseudo-symbol, the heap
BuildBegin ==
    /\ be.pc = "call"
    /\ LET size == Cardinality(DOMAIN be.frequencies)
           min_frequency_index == min_frequency_scan(be.frequencies, 0)
           filled == fill_heap(be.frequencies, 0,
                               [h_link |-> be.h_link,
                                f_heap |-> [s \in DOMAIN be.frequencies |-> 0],
                                nf |-> 0, max_frequency_index |-> 0])
           max_frequency_index == filled.max_frequency_index + 1
       IN  IF min_frequency_index >= size \/ max_frequency_index >= size
           THEN \* lines 441, 481: the index is out of bounds
                be' = [be EXCEPT !.return = "Panic", !.pc = "panicked"]
           ELSE be' = [be EXCEPT
                         !.frequencies = [be.frequencies EXCEPT ![max_frequency_index] = 1],
                         !.h_link = filled.h_link,
                         !.heap = heap_from([filled.f_heap EXCEPT
                                               ![filled.nf] = max_frequency_index], 0),
                         !.nf = filled.nf + 1,
                         !.min_frequency_index = min_frequency_index,
                         !.max_frequency_index = max_frequency_index,
                         !.pc = "loop"]
    /\ UNCHANGED other_than_build

\* lines 520-539, 568: mm and m are popped, frequencies[m] grows and m is
\* pushed
PopTwo ==
    /\ be.pc = "loop"
    /\ be.nf > 1
    /\ IF Len(be.heap) < 2
       THEN \* lines 529, 534: expect("cannot pop heap bug")
            be' = [be EXCEPT !.return = "Panic", !.pc = "panicked"]
       ELSE LET mm == be.heap[1]
                m == be.heap[2]
            IN  be' = [be EXCEPT
                         !.mm = mm,
                         !.m = m,
                         !.nf = be.nf - 1,
                         !.frequencies[m] = be.frequencies[m] + be.frequencies[mm],
                         !.heap = heap_push(Tail(Tail(be.heap)), m),
                         !.j = m,
                         !.merges = Append(be.merges,
                                           [mm |-> mm, m |-> m,
                                            frequencies |-> be.frequencies,
                                            heap |-> be.heap,
                                            h_link |-> be.h_link]),
                         !.pc = "first_list"]
    /\ UNCHANGED other_than_build

\* lines 569-580, 592: one turn of the loop over the list of m
FirstListStep ==
    /\ be.pc = "first_list"
    /\ LET j == be.j
           longer == [be.s_code EXCEPT ![j] = be.s_code[j] + 1]
       IN  IF longer[j] > MaxCodeLength
           THEN be' = [be EXCEPT !.s_code = longer, !.return = "Panic", !.pc = "panicked"]
           ELSE IF be.h_link[j] = j
           THEN be' = [be EXCEPT !.s_code = longer,
                                 !.h_link[j] = merged_link(j, be.m, be.mm),
                                 !.j = be.mm,
                                 !.pc = "second_list"]
           ELSE be' = [be EXCEPT !.s_code = longer, !.j = be.h_link[j]]
    /\ UNCHANGED other_than_build

\* lines 593-604: one turn of the loop over the list of mm
SecondListStep ==
    /\ be.pc = "second_list"
    /\ LET j == be.j
           longer == [be.s_code EXCEPT ![j] = be.s_code[j] + 1]
       IN  IF longer[j] > MaxCodeLength
           THEN be' = [be EXCEPT !.s_code = longer, !.return = "Panic", !.pc = "panicked"]
           ELSE IF be.h_link[j] = j
           THEN be' = [be EXCEPT !.s_code = longer,
                                 !.h_link[j] = be.mm,
                                 !.pc = "canonical"]
           ELSE be' = [be EXCEPT !.s_code = longer, !.j = be.h_link[j]]
    /\ UNCHANGED other_than_build

\* lines 613-617: canonical_table(&mut s_code) and the copy into
\* frequencies; locals is the record of the locals of the function
canonicalized(locals) ==
    IF canonical_table_panics(locals.s_code)
    THEN [locals EXCEPT !.canonical_calls = locals.canonical_calls + 1,
                        !.return = "Panic", !.pc = "panicked"]
    ELSE [locals EXCEPT !.s_code = canonical_table(locals.s_code),
                        !.frequencies = canonical_table(locals.s_code),
                        !.canonical_calls = locals.canonical_calls + 1,
                        !.pc = "loop"]

\* lines 613-618: canonical_table and the copy into frequencies, at the end
\* of the body of `while nf > 1`
Canonicalize ==
    /\ be.pc = "canonical"
    /\ be' = canonicalized(be)
    /\ UNCHANGED other_than_build

\* lines 520, 620: nf <= 1 ends the loop and the range is returned
BuildReturn ==
    /\ be.pc = "loop"
    /\ be.nf <= 1
    /\ be' = [be EXCEPT !.return = "Ok", !.pc = "returned"]
    /\ UNCHANGED other_than_build

NextBuild ==
    \/ BuildBegin
    \/ PopTwo
    \/ FirstListStep
    \/ SecondListStep
    \/ Canonicalize
    \/ BuildReturn

SpecBuild == InitBuild /\ [][NextBuild]_vars

\* the symbols of the heap whose frequency is not 0, at a merge
live_symbols(merge) ==
    {merge.heap[k] : k \in 1..Len(merge.heap)} \cap
        {s \in DOMAIN merge.frequencies : merge.frequencies[s] # 0}

\* symbol a comes before symbol b in the order (frequency, index)
rarer(merge, a, b) ==
    \/ merge.frequencies[a] < merge.frequencies[b]
    \/ merge.frequencies[a] = merge.frequencies[b] /\ a < b

\* C32: every merge of build_encoding_table takes from the heap the two
\* symbols of the smallest frequencies among the symbols whose frequency is
\* not 0, ties going to the smaller index, and adds the smaller of the two
\* frequencies to the other; a symbol of frequency 0 takes part in no merge.
C32_MergesTheTwoRarest ==
    be.pc # "call" =>
        \A k \in 1..Len(be.merges) :
            LET merge == be.merges[k]
                live == live_symbols(merge)
            IN  /\ merge.mm \in live
                /\ merge.m \in live
                /\ merge.mm # merge.m
                /\ merge.frequencies[merge.mm] <= merge.frequencies[merge.m]
                /\ \A s \in live \ {merge.mm, merge.m} :
                        rarer(merge, merge.mm, s) /\ rarer(merge, merge.m, s)

\* the members of the list that starts at j, as far as steps links lead; a
\* list ends at the member that is linked to itself
RECURSIVE list_of(_, _, _)
list_of(h_link, j, steps) ==
    IF h_link[j] = j \/ steps = 0 THEN <<j>>
    ELSE <<j>> \o list_of(h_link, h_link[j], steps - 1)

\* the list that starts at j is a chain without a cycle that ends in a
\* self-referencing terminator
well_formed_list(h_link, j) ==
    LET members == list_of(h_link, j, Cardinality(DOMAIN h_link))
    IN  /\ h_link[members[Len(members)]] = members[Len(members)]
        /\ \A a, b \in 1..Len(members) : a # b => members[a] # members[b]
        /\ Cardinality({k \in 1..Len(members) : h_link[members[k]] = members[k]}) = 1

\* after a merge the list of m holds the members the lists of m and of mm
\* held before it, each of them once
merged_lists_joined ==
    (be.pc \in {"canonical", "loop", "returned"} /\ be.merges # <<>>) =>
        LET merge == be.merges[Len(be.merges)]
            size == Cardinality(DOMAIN be.h_link)
            joined == list_of(be.h_link, merge.m, size)
            first == list_of(merge.h_link, merge.m, size)
            second == list_of(merge.h_link, merge.mm, size)
        IN  /\ Len(joined) = Len(first) + Len(second)
            /\ Range(joined) = Range(first) \cup Range(second)

\* every list is well formed
lists_well_formed ==
    be.pc \notin {"call"} =>
        \A j \in DOMAIN be.h_link : well_formed_list(be.h_link, j)

\* the bits the code lengths of s_code can still grow by before the assert
\* of lines 571 and 595 fails
slack(s_code) ==
    SumSeq([k \in 1..Cardinality(DOMAIN s_code) |->
                IF s_code[k - 1] > MaxCodeLength THEN 0
                ELSE MaxCodeLength + 1 - s_code[k - 1]])

\* a bound of the number of steps a call has left: the merges to come, the
\* loops of the merge under way and the turns its loops can take
steps_left ==
    LET size == Cardinality(DOMAIN be.given)
        turns == (MaxCodeLength + 1) * size + 1
        merge == 2 * turns + 4
    IN  CASE be.pc = "call" -> (size + 2) * merge
          [] be.pc = "loop" -> be.nf * merge + 1
          [] be.pc = "canonical" -> be.nf * merge + 2
          [] be.pc = "second_list" -> be.nf * merge + 3 + slack(be.s_code)
          [] be.pc = "first_list" -> be.nf * merge + 3 + turns + slack(be.s_code)
          [] OTHER -> 0

\* a call that has not come to its end takes a step
call_goes_on ==
    \/ be.pc \in {"returned", "panicked"}
    \/ be.pc \in {"call", "first_list", "second_list", "canonical"}
    \/ be.pc = "loop" /\ (be.nf > 1 \/ be.nf <= 1)

counted_symbols == {s \in DOMAIN be.given : be.given[s] # 0}

\* C34: build_encoding_table calls canonical_table once, after the last
\* merge: while the lists of a merge are walked s_code holds code lengths
\* of at most 58 and canonical_table has not been called, and a call that
\* returns has called it once.
C34_CanonicalizesOnceAfterTheLastMerge ==
    /\ be.pc \in {"first_list", "second_list"} =>
            /\ be.canonical_calls = 0
            /\ \A s \in DOMAIN be.s_code : be.s_code[s] <= MaxCodeLength
    /\ (be.pc = "loop" /\ be.nf > 1) => be.canonical_calls = 0
    /\ (be.pc = "returned" /\ counted_symbols # {}) => be.canonical_calls = 1

\* C35: build_encoding_table returns (iMin, iMax), iMin the smallest symbol
\* of a frequency other than 0 and iMax one more than the greatest such
\* symbol, the index of the pseudo-symbol.
C35_ReturnsTheRangeOfTheSymbols ==
    (be.pc = "returned" /\ counted_symbols # {}) =>
        /\ be.min_frequency_index \in counted_symbols
        /\ \A s \in counted_symbols : be.min_frequency_index <= s
        /\ \A s \in counted_symbols : s < be.max_frequency_index
        /\ be.max_frequency_index - 1 \in counted_symbols
        /\ be.frequencies[be.max_frequency_index] # 0

=============================================================================